---- MODULE Spec2Model ----
(***************************************************************************)
(* crabctl: the dashboard's event loop (internal/tui/model.go).            *)
(*                                                                         *)
(* The Model value is owned by one event loop that handles one message at  *)
(* a time.  Every tea.Cmd a handler returns is an asynchronous unit that   *)
(* runs on its own and later delivers one message; the units in flight are *)
(* part of the state (inflight, nudgeUnits, sentMsgs, killUnits).          *)
(*                                                                         *)
(* Time is a clock in seconds that the environment advances (Advance).     *)
(* Timers are pending tea.Tick commands; a pending timer may deliver its   *)
(* tick at any later point.                                                *)
(*                                                                         *)
(* Not modelled: rendering, the text input, the cursor position (the       *)
(* selected session is any session of the list), preview and resume mode.  *)
(***************************************************************************)
EXTENDS Integers, Sequences, FiniteSets, TLC

VARIABLES
    cfg,              \* the run's environment: executors, session names, statuses, clock step
    now,              \* time.Now(), seconds
    sessions,         \* Model.sessions
    remoteFetching,   \* Model.remoteFetching
    lastInteraction,  \* Model.lastInteraction
    autoForward,      \* Model.autoForward: the set of full names mapped to true
    autoForwardCount, \* Model.autoForwardCount: a map, DOMAIN = the keys present
    waitingSince,     \* Model.waitingSince: a map, DOMAIN = the keys present
    confirmKill,      \* Model.confirmKill: NoConfirm or the pending confirmAction
    err,              \* Model.err # nil
    store,            \* the persistent store: the names with autoforward = 1
    timers,           \* pending tea.Tick commands: [tick, remote] -> count
    inflight,         \* per host: list units dispatched and not yet delivered
    nudgeUnits,       \* nudge units dispatched by checkAutoForward, not yet run
    sentMsgs,         \* autoForwardSentMsg messages not yet handled, per full name
    killUnits,        \* kill units dispatched by executeKill, not yet delivered:
                      \* the session (FullName, Host) each was made for
    hist,             \* history of the watchdog per full name (see NoHist)
    last,             \* history: the message handled (or unit run) by the last step
    call              \* a library function under study: its name, argument and result

vars == <<cfg, now, sessions, remoteFetching, lastInteraction, autoForward,
          autoForwardCount, waitingSince, confirmKill, err, store, timers,
          inflight, nudgeUnits, sentMsgs, killUnits, hist, last, call>>

(***************************************************************************)
(* Program constants (seconds).                                            *)
(***************************************************************************)
remotePollInterval == 5
maxRemotePollInterval == 60
idleThreshold == 30
autoForwardDelay == 10
maxAutoForwards == 5
contentWindow == 10   \* content lines detectStatus looks at
maxCandidates == 10   \* transcript files FindSessionUUID reads
promptTimeout == 30000   \* waitForPrompt gives up after this (milliseconds)
promptPoll == 500        \* waitForPrompt and sendMessage sleep this between captures (ms)
verifyTries == 3         \* captures sendMessage makes to see the message taken

(***************************************************************************)
(* Bounds of the model.                                                    *)
(***************************************************************************)
PollInflight == 2     \* list units in flight per host when polling is studied
WatchInflight == 1    \* list units in flight per host when the watchdog is studied
MaxNudges == 2        \* nudge units and autoForwardSentMsg messages in flight
MaxKills == 1         \* kill units in flight
PollHorizon == 30     \* the clock stops here when polling is studied
WatchHorizon == 60    \* the clock stops here when the watchdog is studied
MaxList == 3          \* the longest list handed to SortSessions
MaxLines == 3         \* lines of a screen, the plain lines put in not counted
MaxPath == 4          \* characters of a path handed to encodeProjectDir
WatchStep == 10       \* the clock's step when the watchdog is studied
PaceStep == 5         \* the clock's step when the pace of nudges is studied
PaceHorizon == 25     \* the clock stops here when the pace of nudges is studied

(***************************************************************************)
(* session.Status and session.Session                                      *)
(***************************************************************************)
Unknown == "Unknown"
Running == "Running"
Waiting == "Waiting"
Permission == "Permission"
Confirm == "Confirm"
TaskDone == "TaskDone"
Status == {Unknown, Running, Waiting, Permission, Confirm, TaskDone}

Session(fullName, host, status, duration) ==
    [FullName |-> fullName, Host |-> host, Status |-> status, Duration |-> duration]

\* a variant that ranks Waiting before Running
statusPriorityIdleFirst(s) ==
    CASE s \in {Permission, Confirm, TaskDone} -> 0
      [] s = Waiting -> 1
      [] s = Running -> 2
      [] OTHER -> 3

statusPriority(s) ==
    CASE s \in {Permission, Confirm, TaskDone} -> 0
      [] s = Running -> 1
      [] s = Waiting -> 2
      [] OTHER -> 3

\* a variant that does not look at the hosts
sessionLessAnyHost(a, b) ==
    IF statusPriority(a.Status) # statusPriority(b.Status)
    THEN statusPriority(a.Status) < statusPriority(b.Status)
    ELSE a.Duration < b.Duration

\* the less function SortSessions hands to sort.SliceStable
sessionLess(a, b) ==
    IF (a.Host = "") # (b.Host = "") THEN a.Host = ""
    ELSE IF statusPriority(a.Status) # statusPriority(b.Status)
         THEN statusPriority(a.Status) < statusPriority(b.Status)
         ELSE a.Duration < b.Duration

\* insert x after every element that is not greater than it (stability)
RECURSIVE InsertStable(_, _)
InsertStable(x, s) ==
    IF s = <<>> THEN <<x>>
    ELSE IF sessionLess(x, Head(s)) THEN <<x>> \o s
         ELSE <<Head(s)>> \o InsertStable(x, Tail(s))

\* sort.SliceStable: the stable sort of a list is unique, insertion sort computes it
RECURSIVE SortSessions(_)
SortSessions(s) ==
    IF s = <<>> THEN <<>>
    ELSE InsertStable(s[Len(s)], SortSessions(SubSeq(s, 1, Len(s) - 1)))

filterByHost(ss, remoteOnly) ==
    SelectSeq(ss, LAMBDA s : (s.Host # "") = remoteOnly)

HostEntries(ss, h) == SelectSeq(ss, LAMBDA s : s.Host = h)

(***************************************************************************)
(* Maps (Go map[string]T): functions whose DOMAIN is the set of keys.      *)
(***************************************************************************)
EmptyMap == [k \in {} |-> 0]
MapPut(m, k, v) == [x \in DOMAIN m \cup {k} |-> IF x = k THEN v ELSE m[x]]
MapDelete(m, k) == [x \in DOMAIN m \ {k} |-> m[x]]
MapGet(m, k, zero) == IF k \in DOMAIN m THEN m[k] ELSE zero

(***************************************************************************)
(* The environment of a run.                                               *)
(***************************************************************************)
Hosts == {cfg.executors[i] : i \in DOMAIN cfg.executors}
RemoteHosts == Hosts \ {""}
hasRemoteHosts == RemoteHosts # {}

\* findExecutor: the executor of the host, the local executor when none matches
findExecutor(host) == IF host \in Hosts THEN host ELSE ""

\* what session.ListExecutor can return for host h: the host's sessions in the
\* multiplexer's (alphabetical) order, each with the status its screen shows
RECURSIVE ListsOver(_, _)
ListsOver(h, names) ==
    IF names = <<>> THEN {<<>>}
    ELSE LET rest == ListsOver(h, Tail(names))
         IN rest \cup
            {<<Session(Head(names), h, st, d)>> \o r :
                st \in cfg.statuses[h], d \in cfg.durations, r \in rest}

ListExecutor(h) == ListsOver(h, cfg.names[h])

\* the sessions of a list of host h whose working directory ListExecutor
\* handed to findLatestSessionFile
lastActiveLookups(h, list) ==
    IF h = "" THEN {list[i] : i \in DOMAIN list} ELSE {}

\* history of the watchdog for one full name:
\*   sent    nudges sent since a tick last saw it Running (or absent, or disabled)
\*   from    the time of the tick that began its current run of Waiting
\*           observations, -1 outside such a run
\*   nudged  a nudge unit was dispatched during the current run
\*   short   its last run was ended by a Running observation before
\*           autoForwardDelay had elapsed, and no new run has begun
\*   at      the time a nudge unit was last dispatched for it, -1 when none
\*           was or autoForwardDelay has passed since
NoHist == [sent |-> 0, from |-> -1, nudged |-> FALSE, short |-> FALSE, at |-> -1]

\* no library function is under study
NoCall == [fn |-> "", arg |-> <<>>, ret |-> <<>>]

NoConfirm == [FullName |-> "", Host |-> "", Killing |-> FALSE, Set |-> FALSE]

\* history: a step's event; list is the session list a poll result carries
EventWith(msg, host, name, info, list) ==
    [msg |-> msg, host |-> host, name |-> name, info |-> info, list |-> list]
Event(msg, host, name, info) == EventWith(msg, host, name, info, <<>>)

(***************************************************************************)
(* Asynchronous units in flight.                                           *)
(*                                                                         *)
(* inflight[h] counts the list units of host h that were dispatched and    *)
(* have not delivered their message.  They are kept in issue order; the    *)
(* first `stale` of them were issued before a unit of h whose result has   *)
(* already been applied.                                                   *)
(***************************************************************************)
NoUnits == [pending |-> 0, stale |-> 0]

\* one more list unit for every host of hs
Dispatch(inf, hs) ==
    [h \in DOMAIN inf |->
        IF h \in hs THEN [inf[h] EXCEPT !.pending = @ + 1] ELSE inf[h]]

CanDispatch(hs) == \A h \in hs : inflight[h].pending < cfg.inflight

\* the i-th oldest unit of host h delivers its message
Delivered(inf, h, i) ==
    [inf EXCEPT ![h] = [pending |-> @.pending - 1,
                        stale   |-> IF i <= @.stale THEN @.stale - 1 ELSE i - 1]]

\* the sessions that can exist: <<full name, host>>
UnitKeys == UNION {{<<cfg.names[h][i], h>> : i \in DOMAIN cfg.names[h]} : h \in Hosts}
AllNames == {k[1] : k \in UnitKeys}

NudgesInFlight ==
    LET RECURSIVE Sum(_, _)
        Sum(f, S) == IF S = {} THEN 0
                     ELSE LET x == CHOOSE y \in S : TRUE IN f[x] + Sum(f, S \ {x})
    IN Sum(nudgeUnits, DOMAIN nudgeUnits) + Sum(sentMsgs, DOMAIN sentMsgs)

(***************************************************************************)
(* remoteInterval: 5s, doubled for every 30s of inactivity, capped at 60s  *)
(***************************************************************************)
RECURSIVE remoteIntervalLoop(_, _, _)
remoteIntervalLoop(interval, threshold, idle) ==
    IF interval < maxRemotePollInterval /\ idle >= threshold
    THEN remoteIntervalLoop(interval * 2, threshold + idleThreshold, idle)
    ELSE interval

\* a variant without the cap after the loop
remoteIntervalUncapped(idle) ==
    remoteIntervalLoop(remotePollInterval, idleThreshold, idle)

remoteInterval(idle) ==
    LET interval == remoteIntervalLoop(remotePollInterval, idleThreshold, idle)
    IN IF interval > maxRemotePollInterval THEN maxRemotePollInterval ELSE interval

(***************************************************************************)
(* syncAutoForwardFromDB: the three maps after merging the store's state   *)
(***************************************************************************)
\* a variant without the loop that removes the sessions disabled in the store
syncAddOnly(dbState, af, cnt, ws) ==
    [autoForward |-> af \cup dbState, autoForwardCount |-> cnt, waitingSince |-> ws]

syncAutoForwardFromDB(dbState, af, cnt, ws) ==
    LET added   == af \cup dbState
        removed == {name \in added : name \notin dbState}
    IN [autoForward      |-> added \ removed,
        autoForwardCount |-> [k \in DOMAIN cnt \ removed |-> cnt[k]],
        waitingSince     |-> [k \in DOMAIN ws \ removed |-> ws[k]]]

(***************************************************************************)
(* checkAutoForward                                                        *)
(***************************************************************************)
\* a variant that leaves the timer running
timerAfterNudgeKept(ws, fn, t) == ws

\* m.waitingSince[s.FullName] = now, once the nudge unit is made
timerAfterNudge(ws, fn, t) == MapPut(ws, fn, t)

\* the body of the loop over m.sessions for the session s; acc = [ws, cnt, cmds]
checkOne(s, af, acc, t) ==
    IF s.FullName \notin af THEN acc
    ELSE
      LET fn   == s.FullName
          ws1  == IF s.Status = Waiting
                  THEN (IF fn \in DOMAIN acc.ws THEN acc.ws ELSE MapPut(acc.ws, fn, t))
                  ELSE MapDelete(acc.ws, fn)
          cnt1 == IF s.Status # Waiting /\ s.Status = Running
                  THEN MapPut(acc.cnt, fn, 0)
                  ELSE acc.cnt
          tracked == [acc EXCEPT !.ws = ws1, !.cnt = cnt1]
      IN IF s.Status = TaskDone THEN tracked
         ELSE IF fn \notin DOMAIN ws1 \/ t - ws1[fn] < autoForwardDelay THEN tracked
         ELSE IF MapGet(cnt1, fn, 0) >= maxAutoForwards THEN tracked
         ELSE [ws   |-> timerAfterNudge(ws1, fn, t),
               cnt  |-> cnt1,
               cmds |-> Append(acc.cmds, <<fn, findExecutor(s.Host)>>)]

RECURSIVE checkLoop(_, _, _, _, _)
checkLoop(ss, i, af, acc, t) ==
    IF i > Len(ss) THEN acc
    ELSE checkLoop(ss, i + 1, af, checkOne(ss[i], af, acc, t), t)

\* the maps after the tick and the nudge units it dispatches
checkAutoForward(ss, af, cnt, ws, t) ==
    LET activeFullNames == {ss[i].FullName : i \in DOMAIN ss}
        acc  == checkLoop(ss, 1, af, [ws |-> ws, cnt |-> cnt, cmds |-> <<>>], t)
        gone == {fn \in DOMAIN acc.ws : fn \notin activeFullNames}
    IN [waitingSince     |-> [k \in DOMAIN acc.ws \ gone |-> acc.ws[k]],
        autoForwardCount |-> [k \in DOMAIN acc.cnt \ gone |-> acc.cnt[k]],
        cmds             |-> acc.cmds]

\* the bag b with the elements of the list cmds added
RECURSIVE AddAll(_, _)
AddAll(b, cmds) ==
    IF cmds = <<>> THEN b
    ELSE AddAll([b EXCEPT ![Head(cmds)] = @ + 1], Tail(cmds))

(***************************************************************************)
(* Init: the Model NewModel builds (no restore state, the store's flags    *)
(* loaded), and the commands of Model.Init in flight: the local poll, one  *)
(* list unit per remote host (remoteLoading holds every remote host), the  *)
(* local timer and, with remote hosts, the remote timer.                   *)
(***************************************************************************)
InitFields(c, db) ==
    /\ cfg = c
    /\ now = 0
    /\ sessions = <<>>
    /\ remoteFetching = FALSE
    /\ lastInteraction = 0
    /\ autoForward = db
    /\ autoForwardCount = EmptyMap
    /\ waitingSince = EmptyMap
    /\ confirmKill = NoConfirm
    /\ err = FALSE
    /\ store = db
    /\ timers = [tick |-> 1, remote |-> IF hasRemoteHosts THEN 1 ELSE 0]
    /\ inflight = [h \in Hosts |-> [pending |-> 1, stale |-> 0]]
    /\ nudgeUnits = [k \in UnitKeys |-> 0]
    /\ sentMsgs = [n \in AllNames |-> 0]
    /\ killUnits = <<>>
    /\ hist = [n \in AllNames |-> NoHist]
    /\ last = Event("init", "", "", "")

InitModel(c, db) == InitFields(c, db) /\ call = NoCall

(***************************************************************************)
(* The clock.                                                              *)
(***************************************************************************)
Advance ==
    /\ now + cfg.step <= cfg.horizon
    /\ now' = now + cfg.step
    /\ last' = Event("advance", "", "", "")
    /\ hist' = [fn \in DOMAIN hist |->
                   [hist[fn] EXCEPT !.at = IF @ # -1 /\ now' - @ < autoForwardDelay
                                           THEN @ ELSE -1]]
    /\ UNCHANGED <<call, cfg, sessions, remoteFetching, lastInteraction, autoForward,
                   autoForwardCount, waitingSince, confirmKill, err, store, timers,
                   inflight, nudgeUnits, sentMsgs, killUnits>>

(***************************************************************************)
(* Update: case []session.Session -- the result of a local poll            *)
(***************************************************************************)
\* local sessions replace only local entries, the remote ones are preserved
mergeLocal(ss, msg) == SortSessions(msg \o filterByHost(ss, TRUE))

LocalSessionsMsg(i, msg) ==
    /\ i \in 1..inflight[""].pending
    /\ msg \in ListExecutor("")
    /\ sessions' = mergeLocal(sessions, msg)
    /\ inflight' = Delivered(inflight, "", i)
    /\ last' = EventWith("sessions", "", "ok",
                         IF i <= inflight[""].stale THEN "stale" ELSE "fresh", msg)
    /\ UNCHANGED <<call, cfg, now, remoteFetching, lastInteraction, autoForward,
                   autoForwardCount, waitingSince, confirmKill, err, store, timers,
                   nudgeUnits, sentMsgs, killUnits, hist>>

(***************************************************************************)
(* Update: case error -- refreshLocalSessions returned ListExecutor's      *)
(* error (the multiplexer binary was not found)                            *)
(***************************************************************************)
ErrorMsg(i) ==
    /\ i \in 1..inflight[""].pending
    /\ err' = TRUE
    /\ inflight' = Delivered(inflight, "", i)
    /\ last' = Event("error", "", "", "failed")
    /\ UNCHANGED <<call, cfg, now, sessions, remoteFetching, lastInteraction, autoForward,
                   autoForwardCount, waitingSince, confirmKill, store, timers,
                   nudgeUnits, sentMsgs, killUnits, hist>>

(***************************************************************************)
(* Update: case remoteSessionsMsg -- the result of one remote host.        *)
(* The unit drops ListExecutor's error, and SSHExecutor.ListSessions       *)
(* returns no sessions and no error when ssh fails: a failed poll delivers *)
(* the host with an empty list.                                            *)
(***************************************************************************)
\* a variant that drops the sessions of every host
keptNothing(ss, host) == <<>>

\* the loop that keeps the sessions of every other host
keptSessions(ss, host) == SelectSeq(ss, LAMBDA s : s.Host # host)

\* a variant that keeps the guard until every list unit has answered
fetchingUntilAllAnswered(inf) ==
    remoteFetching /\ \E h \in RemoteHosts : inf[h].pending > 0

\* a variant that never clears the guard
fetchingNeverCleared(inf) == remoteFetching

\* m.remoteFetching = false, whatever is still in flight (inf)
fetchingAfterResult(inf) == FALSE

\* the sessions of this host replaced, everything else kept
mergeRemote(ss, host, msg) == SortSessions(keptSessions(ss, host) \o msg)

RemoteResult(h, failed) ==
    IF failed THEN {<<>>} ELSE ListExecutor(h)

RemoteSessionsMsg(h, i, failed, msgSessions) ==
    /\ h \in RemoteHosts
    /\ i \in 1..inflight[h].pending
    /\ msgSessions \in RemoteResult(h, failed)
    /\ remoteFetching' = fetchingAfterResult(Delivered(inflight, h, i))
    /\ sessions' = mergeRemote(sessions, h, msgSessions)
    /\ inflight' = Delivered(inflight, h, i)
    /\ last' = EventWith("remoteSessions", h, IF failed THEN "failed" ELSE "ok",
                         IF i <= inflight[h].stale THEN "stale" ELSE "fresh", msgSessions)
    /\ UNCHANGED <<call, cfg, now, lastInteraction, autoForward,
                   autoForwardCount, waitingSince, confirmKill, err, store, timers,
                   nudgeUnits, sentMsgs, killUnits, hist>>

(***************************************************************************)
(* Update: case tickMsg                                                    *)
(***************************************************************************)
\* history of fn after a tick that saw the list ss with af enabled and
\* dispatched the nudge units cmds
HistAfterTick(fn, ss, af, cmds, t) ==
    LET entries  == {i \in DOMAIN ss : ss[i].FullName = fn}
        waiting  == \A i \in entries : ss[i].Status = Waiting
        running  == \E i \in entries : ss[i].Status = Running
        nudgedNow == \E i \in DOMAIN cmds : cmds[i][1] = fn
        h        == hist[fn]
        at       == IF nudgedNow THEN t ELSE h.at
    IN IF fn \notin af \/ entries = {} THEN [NoHist EXCEPT !.at = at]
       ELSE IF waiting
       THEN [sent   |-> h.sent,
             from   |-> IF h.from = -1 THEN t ELSE h.from,
             nudged |-> (h.from # -1 /\ h.nudged) \/ nudgedNow,
             short  |-> FALSE,
             at     |-> at]
       ELSE [sent   |-> IF running THEN 0 ELSE h.sent,
             from   |-> -1,
             nudged |-> FALSE,
             short  |-> IF h.from # -1
                        THEN running /\ t - h.from < autoForwardDelay
                        ELSE h.short,
             at     |-> at]

\* the tea.Tick whose message is being handled is no longer pending
timerFired(t, which) == [t EXCEPT ![which] = @ - 1]

\* a variant of the tick handler that does not arm the timer again
tickCmdNone(t) == t

\* tickCmd(): one more local poll timer pending
tickCmd(t) == [t EXCEPT !.tick = @ + 1]

\* remoteTickCmd(interval): one more remote poll timer pending
remoteTickCmd(t) == [t EXCEPT !.remote = @ + 1]

TickMsg ==
    /\ timers.tick > 0
    /\ CanDispatch({""})
    /\ LET synced == syncAutoForwardFromDB(store, autoForward, autoForwardCount, waitingSince)
           chk    == checkAutoForward(sessions, synced.autoForward,
                                      synced.autoForwardCount, synced.waitingSince, now)
       IN /\ NudgesInFlight + Len(chk.cmds) <= MaxNudges
          /\ autoForward' = synced.autoForward
          /\ autoForwardCount' = chk.autoForwardCount
          /\ waitingSince' = chk.waitingSince
          /\ nudgeUnits' = AddAll(nudgeUnits, chk.cmds)
          /\ hist' = [fn \in DOMAIN hist |->
                         HistAfterTick(fn, sessions, synced.autoForward, chk.cmds, now)]
          /\ last' = Event("tick", "", "", IF chk.cmds = <<>> THEN "" ELSE "nudge")
    /\ timers' = tickCmd(timerFired(timers, "tick"))
    /\ inflight' = Dispatch(inflight, {""})
    /\ UNCHANGED <<call, cfg, now, sessions, remoteFetching, lastInteraction,
                   confirmKill, err, store, sentMsgs, killUnits>>

(***************************************************************************)
(* Update: case remoteTickMsg                                              *)
(***************************************************************************)
RemoteTickMsg ==
    /\ timers.remote > 0
    /\ timers' = remoteTickCmd(timerFired(timers, "remote"))
    /\ IF ~remoteFetching /\ hasRemoteHosts
       THEN /\ CanDispatch(RemoteHosts)
            /\ remoteFetching' = TRUE
            /\ inflight' = Dispatch(inflight, RemoteHosts)
            /\ last' = Event("remoteTick", "", "", "round")
       ELSE /\ UNCHANGED <<remoteFetching, inflight>>
            /\ last' = Event("remoteTick", "", "", "")
    /\ UNCHANGED <<call, cfg, now, sessions, lastInteraction, autoForward,
                   autoForwardCount, waitingSince, confirmKill, err, store,
                   nudgeUnits, sentMsgs, killUnits, hist>>

(***************************************************************************)
(* ToggleAutoForward (Ctrl+A on the selected session)                      *)
(***************************************************************************)
ToggleAutoForward(fullName, af, cnt, ws, db) ==
    IF fullName \in af
    THEN [autoForward      |-> af \ {fullName},
          waitingSince     |-> MapDelete(ws, fullName),
          autoForwardCount |-> MapDelete(cnt, fullName),
          store            |-> db \ {fullName}]
    ELSE [autoForward      |-> af \cup {fullName},
          waitingSince     |-> ws,
          autoForwardCount |-> cnt,
          store            |-> db \cup {fullName}]

(***************************************************************************)
(* handleKey, as far as it changes the modelled fields.  sel is the index  *)
(* of the selected session, 0 when the list is empty.                      *)
(***************************************************************************)
Keys == {"esc", "enter", "ctrl+k", "ctrl+a", "other"}

Selections == IF sessions = <<>> THEN {0} ELSE DOMAIN sessions

handleKey(k, sel) ==
    LET same == [confirmKill |-> confirmKill, autoForward |-> autoForward,
                 waitingSince |-> waitingSince, autoForwardCount |-> autoForwardCount,
                 store |-> store, kills |-> <<>>]
    IN CASE k = "esc" -> [same EXCEPT !.confirmKill = NoConfirm]
         [] k # "esc" /\ confirmKill.Set ->
              IF k = "enter"
              THEN \* executeKill
                   [same EXCEPT !.confirmKill = [confirmKill EXCEPT !.Killing = TRUE],
                                !.kills = <<[FullName |-> confirmKill.FullName,
                                               Host |-> confirmKill.Host]>>]
              ELSE [same EXCEPT !.confirmKill = NoConfirm]
         [] k = "ctrl+k" /\ ~confirmKill.Set ->
              IF sel = 0 THEN same
              ELSE [same EXCEPT !.confirmKill =
                       [FullName |-> sessions[sel].FullName, Host |-> sessions[sel].Host,
                        Killing |-> FALSE, Set |-> TRUE]]
         [] k = "ctrl+a" /\ ~confirmKill.Set ->
              IF sel = 0 THEN same
              ELSE LET t == ToggleAutoForward(sessions[sel].FullName, autoForward,
                                              autoForwardCount, waitingSince, store)
                   IN [same EXCEPT !.autoForward = t.autoForward,
                                   !.waitingSince = t.waitingSince,
                                   !.autoForwardCount = t.autoForwardCount,
                                   !.store = t.store]
         [] OTHER -> same

(***************************************************************************)
(* Update: case tea.KeyMsg and case tea.MouseMsg.                          *)
(* The forced refresh sets remoteFetching on Update's own copy of the      *)
(* Model and returns the copy handleKey (handleMouse) made before that:    *)
(* the Model the loop keeps has remoteFetching as it was.                  *)
(***************************************************************************)
\* a variant with >= for >
wasIdleAlways == remoteInterval(now - lastInteraction) >= remotePollInterval

wasIdle == remoteInterval(now - lastInteraction) > remotePollInterval

ForcedRefresh == wasIdle /\ hasRemoteHosts /\ ~remoteFetching

KeyMsg(k, sel) ==
    /\ k \in Keys
    /\ sel \in Selections
    /\ lastInteraction' = now
    /\ LET ret == handleKey(k, sel)
       IN /\ Len(killUnits) + Len(ret.kills) <= MaxKills
          /\ confirmKill' = ret.confirmKill
          /\ autoForward' = ret.autoForward
          /\ waitingSince' = ret.waitingSince
          /\ autoForwardCount' = ret.autoForwardCount
          /\ store' = ret.store
          /\ killUnits' = killUnits \o ret.kills
          /\ hist' = [fn \in DOMAIN hist |->
                         IF fn \in ret.autoForward \/ fn \notin autoForward
                         THEN hist[fn] ELSE [NoHist EXCEPT !.at = hist[fn].at]]
    /\ IF ForcedRefresh
       THEN /\ CanDispatch(RemoteHosts)
            /\ inflight' = Dispatch(inflight, RemoteHosts)
            /\ last' = Event("key", "", k, "forced")
       ELSE /\ UNCHANGED inflight
            /\ last' = Event("key", "", k, "")
    /\ UNCHANGED <<call, cfg, now, sessions, remoteFetching, err, timers, nudgeUnits, sentMsgs>>

MouseMsg ==
    /\ lastInteraction' = now
    /\ IF ForcedRefresh
       THEN /\ CanDispatch(RemoteHosts)
            /\ inflight' = Dispatch(inflight, RemoteHosts)
            /\ last' = Event("mouse", "", "", "forced")
       ELSE /\ UNCHANGED inflight
            /\ last' = Event("mouse", "", "", "")
    /\ UNCHANGED <<call, cfg, now, sessions, remoteFetching, autoForward, autoForwardCount,
                   waitingSince, confirmKill, err, store, timers, nudgeUnits, sentMsgs,
                   killUnits, hist>>

(***************************************************************************)
(* The kill unit of executeKill and Update: case sessionKilledMsg.  The    *)
(* unit looks up the transcript of the session it was made for (for the    *)
(* record of killed sessions), kills the session and delivers its message. *)
(***************************************************************************)
\* the host whose session's working directory the unit hands to
\* session.FindSessionUUID
killLookup(unit) == unit.Host

SessionKilledMsg(i) ==
    /\ i \in DOMAIN killUnits
    /\ killUnits' = SubSeq(killUnits, 1, i - 1) \o SubSeq(killUnits, i + 1, Len(killUnits))
    /\ confirmKill' = NoConfirm
    /\ CanDispatch(Hosts)
    /\ inflight' = Dispatch(inflight, Hosts)
    /\ last' = Event("sessionKilled", killLookup(killUnits[i]), killUnits[i].FullName,
                     IF hasRemoteHosts THEN "round" ELSE "")
    /\ UNCHANGED <<call, cfg, now, sessions, remoteFetching, lastInteraction, autoForward,
                   autoForwardCount, waitingSince, err, store, timers, nudgeUnits,
                   sentMsgs, hist>>

(***************************************************************************)
(* The nudge unit of checkAutoForward: capture is what CapturePaneOutput   *)
(* and DetectStatus give ("err": the capture failed), screen is the status *)
(* the session's screen shows when SendKeys acts (the captured one when    *)
(* the capture succeeded), typed tells whether SendKeys delivered the text *)
(* (its error is dropped: autoForwardSentMsg is returned either way).      *)
(***************************************************************************)
Captures(host) == cfg.statuses[host] \cup {"err"}

NudgeSends(capture) == capture = "err" \/ capture = Waiting

NudgeUnit(key, capture, screen, typed) ==
    /\ key \in DOMAIN nudgeUnits
    /\ nudgeUnits[key] > 0
    /\ capture \in Captures(key[2])
    /\ screen \in cfg.statuses[key[2]]
    /\ capture # "err" => screen = capture
    /\ nudgeUnits' = [nudgeUnits EXCEPT ![key] = @ - 1]
    /\ IF NudgeSends(capture)
       THEN /\ sentMsgs' = [sentMsgs EXCEPT ![key[1]] = @ + 1]
            /\ hist' = [hist EXCEPT ![key[1]].sent = IF typed THEN @ + 1 ELSE @]
            /\ last' = Event(IF typed THEN "nudgeSent" ELSE "nudgeFailed",
                             key[2], key[1], screen)
       ELSE /\ typed = FALSE
            /\ UNCHANGED <<sentMsgs, hist>>
            /\ last' = Event("nudgeSkipped", key[2], key[1], screen)
    /\ UNCHANGED <<call, cfg, now, sessions, remoteFetching, lastInteraction, autoForward,
                   autoForwardCount, waitingSince, confirmKill, err, store, timers,
                   inflight, killUnits>>

(***************************************************************************)
(* Update: case autoForwardSentMsg                                         *)
(***************************************************************************)
AutoForwardSentMsg(fullName) ==
    /\ fullName \in DOMAIN sentMsgs
    /\ sentMsgs[fullName] > 0
    /\ sentMsgs' = [sentMsgs EXCEPT ![fullName] = @ - 1]
    /\ autoForwardCount' = MapPut(autoForwardCount, fullName,
                                  MapGet(autoForwardCount, fullName, 0) + 1)
    /\ last' = Event("autoForwardSent", "", fullName, "")
    /\ UNCHANGED <<call, cfg, now, sessions, remoteFetching, lastInteraction, autoForward,
                   waitingSince, confirmKill, err, store, timers, inflight, nudgeUnits,
                   killUnits, hist>>

(***************************************************************************)
(* Polling: three executors (local, A, B), no session enabled for          *)
(* auto-forward.  The clock steps by the back-off threshold.               *)
(***************************************************************************)
PollCfg ==
    [executors |-> <<"", "A", "B">>,
     names     |-> [h \in {"", "A", "B"} |->
                      IF h = "" THEN <<"crab-l">> ELSE IF h = "A" THEN <<"crab-a">> ELSE <<"crab-b">>],
     statuses  |-> [h \in {"", "A", "B"} |-> IF h = "A" THEN {Running, Waiting} ELSE {Waiting}],
     durations |-> {1},
     step      |-> idleThreshold,
     horizon   |-> PollHorizon,
     inflight  |-> PollInflight]

InitPoll == InitModel(PollCfg, {})

NextPoll ==
    \/ Advance
    \/ TickMsg
    \/ \E i \in 1..PollInflight : \E msg \in ListExecutor("") : LocalSessionsMsg(i, msg)
    \/ RemoteTickMsg
    \/ \E h \in RemoteHosts, i \in 1..PollInflight, failed \in BOOLEAN :
          \E msg \in RemoteResult(h, failed) : RemoteSessionsMsg(h, i, failed, msg)
    \/ \E sel \in Selections : KeyMsg("other", sel)
    \/ MouseMsg

SpecPoll == InitPoll /\ [][NextPoll]_vars

(***************************************************************************)
(* Claims about polling (SpecPoll).                                        *)
(***************************************************************************)
IsResultFor(e, h) ==
    \/ e.msg = "sessions" /\ h = ""
    \/ e.msg = "remoteSessions" /\ e.host = h

RoundDispatched ==
    \A h \in RemoteHosts : inflight'[h].pending = inflight[h].pending + 1

\* C3: at most one remote refresh round is outstanding: no remote host ever has
\* two list units in flight (every round dispatches one unit per remote host).
C3_OneRoundOutstanding ==
    \A h \in RemoteHosts : inflight[h].pending <= 1

\* C4: the results of a host are applied in the order their polls were issued:
\* no applied result was issued before a result of its host applied earlier.
C4_AppliedInIssueOrder ==
    last.msg \in {"sessions", "remoteSessions"} => last.info # "stale"

\* C5: the result of a failed remote poll leaves the registry entries of its
\* host, of every other host and of local unchanged.
C5_FailedPollKeepsEntries ==
    [][(last'.msg = "remoteSessions" /\ last'.name = "failed")
         => \A h \in Hosts : HostEntries(sessions', h) = HostEntries(sessions, h)]_vars

\* C6: applying a poll result for host h replaces exactly the entries of h by
\* the sessions of the result (in sorted order) and leaves the entries of every
\* other host unchanged; every other step leaves the whole registry unchanged.
C6_PerHostReplace ==
    [][\A h \in Hosts :
          IF IsResultFor(last', h)
          THEN HostEntries(sessions', h) = SortSessions(last'.list)
          ELSE HostEntries(sessions', h) = HostEntries(sessions, h)]_vars

\* C6 witness: a result of host A with a session was applied while local and B
\* have entries.
C6_Witness ==
    /\ last.msg = "remoteSessions" /\ last.host = "A" /\ last.list # <<>>
    /\ HostEntries(sessions, "") # <<>>
    /\ HostEntries(sessions, "B") # <<>>

\* C7: a pending fetch of one host delays no other host and not local: a remote
\* tick that finds no list unit of a host b in flight dispatches one for b
\* (whatever is pending for the other hosts), every local tick dispatches a
\* local poll, and the entries of a host change only when its own result is
\* applied.
C7_NoCrossHostBlocking ==
    [][/\ \A b \in RemoteHosts :
            (last'.msg = "remoteTick" /\ inflight[b].pending = 0)
               => inflight'[b].pending = 1
       /\ last'.msg = "tick" => inflight'[""].pending = inflight[""].pending + 1
       /\ \A a \in RemoteHosts :
            ~IsResultFor(last', a)
               => HostEntries(sessions', a) = HostEntries(sessions, a)]_vars

\* C7 witness: a remote tick has dispatched a fresh poll of B (its earlier one
\* has answered) while the earlier poll of A is still in flight.
C7_Witness ==
    /\ last.msg = "remoteTick" /\ last.info = "round"
    /\ inflight["A"].pending = 2
    /\ inflight["B"].pending = 1

\* C10 as stated: a key or pointer event that finds the interval grown (with
\* remote hosts) always dispatches one extra remote round.
C10_GrownAlwaysForces ==
    [][(last'.msg \in {"key", "mouse"} /\ wasIdle /\ hasRemoteHosts)
         => RoundDispatched]_vars

\* C10 amended: every key or pointer event resets the interval to its floor; it
\* dispatches exactly one extra round (one list unit per remote host) if the
\* interval had grown, remote hosts exist and the in-flight guard is clear, and
\* dispatches nothing otherwise (the user was active, or the guard is set).
C10_ForcedRefresh ==
    [][last'.msg \in {"key", "mouse"}
         => /\ remoteInterval(now' - lastInteraction') = remotePollInterval
            /\ IF remoteInterval(now - lastInteraction) > remotePollInterval
                  /\ hasRemoteHosts /\ ~remoteFetching
               THEN RoundDispatched
               ELSE inflight' = inflight]_vars

\* C10 witness: a key event found the interval grown and forced a round.
C10_Witness ==
    /\ last.msg = "key" /\ last.info = "forced"
    /\ lastInteraction = now /\ now >= idleThreshold

(***************************************************************************)
(* The watchdog: the local executor only, one session, enabled in the      *)
(* store.                                                                  *)
(***************************************************************************)
WatchCfg ==
    [executors |-> <<"">>,
     names     |-> [h \in {""} |-> <<"crab-x">>],
     statuses  |-> [h \in {""} |-> {Running, Waiting, TaskDone}],
     durations |-> {1},
     step      |-> WatchStep,
     horizon   |-> WatchHorizon,
     inflight  |-> WatchInflight]

InitWatch == InitModel(WatchCfg, {"crab-x"})

NextWatch ==
    \/ Advance
    \/ TickMsg
    \/ \E i \in 1..WatchInflight : \E msg \in ListExecutor("") : LocalSessionsMsg(i, msg)
    \/ \E key \in UnitKeys, typed \in BOOLEAN :
          \E capture \in Captures(key[2]), screen \in cfg.statuses[key[2]] :
             NudgeUnit(key, capture, screen, typed)
    \/ \E fullName \in AllNames : AutoForwardSentMsg(fullName)

SpecWatch == InitWatch /\ [][NextWatch]_vars

(***************************************************************************)
(* Claims about the watchdog (SpecWatch).                                  *)
(***************************************************************************)
Registered(fn) == \E i \in DOMAIN sessions : sessions[i].FullName = fn

\* C1: a session that stays Waiting is sent at most maxAutoForwards nudges: no
\* session has been sent more than 5 nudges since it was last observed Running.
C1_AtMostFiveNudges ==
    \A fn \in DOMAIN hist : hist[fn].sent <= maxAutoForwards

\* C2: the nudge text is sent only to a session whose screen classifies as
\* Waiting at send time.
C2_SentOnlyWhenWaiting ==
    last.msg = "nudgeSent" => last.info = Waiting

\* C8: a run of Waiting observations that a Running observation ends before
\* autoForwardDelay has elapsed has no nudge dispatched in it, and the
\* consecutive-forward counter is 0 at the tick that begins the next run.
C8_ShortWaitResetsCounter ==
    [][last'.msg = "tick" =>
         \A fn \in DOMAIN hist :
            /\ (hist'[fn].short /\ hist[fn].from # -1) => ~hist[fn].nudged
            /\ (hist[fn].short /\ hist'[fn].from # -1)
                  => MapGet(autoForwardCount', fn, 0) = 0]_vars

\* C9: after every tick there is no waiting-since entry and no counter entry
\* for a session that is absent from the registry.
C9_NoEntryForAbsentSession ==
    last.msg = "tick" =>
        \A fn \in DOMAIN waitingSince \cup DOMAIN autoForwardCount : Registered(fn)

(***************************************************************************)
(* Library functions studied on their own: the event loop stands still,    *)
(* call holds the argument drawn and, after the call, the result.          *)
(***************************************************************************)
loopVars == <<cfg, now, sessions, remoteFetching, lastInteraction, autoForward,
              autoForwardCount, waitingSince, confirmKill, err, store, timers,
              inflight, nudgeUnits, sentMsgs, killUnits, hist, last>>

InitLibrary(args) ==
    /\ InitFields(WatchCfg, {})
    /\ call \in {[fn |-> "", arg |-> a, ret |-> <<>>] : a \in args}

\* the sequences over S of length at most n
SeqsUpTo(S, n) == UNION {[1..k -> S] : k \in 0..n}

(***************************************************************************)
(* session.SortSessions on lists of local and remote sessions.             *)
(***************************************************************************)
SortHosts == {"", "bay1"}
SortDurations == {1, 2}
SortInputs ==
    SeqsUpTo({Session("crab-s", h, st, d) :
                 h \in SortHosts, st \in Status, d \in SortDurations}, MaxList)

InitSort == InitLibrary(SortInputs)

CallSortSessions ==
    /\ call.fn = ""
    /\ call' = [fn |-> "SortSessions", arg |-> call.arg, ret |-> SortSessions(call.arg)]
    /\ UNCHANGED loopVars

NextSort == CallSortSessions

SpecSort == InitSort /\ [][NextSort]_vars

\* the display priority of a status: {Permission, Confirm, TaskDone} > Running >
\* Waiting > Unknown
DisplayRank(st) ==
    IF st \in {Permission, Confirm, TaskDone} THEN 0
    ELSE IF st = Running THEN 1
    ELSE IF st = Waiting THEN 2
    ELSE 3

\* by display priority, ties by ascending duration
InDisplayOrder(a, b) ==
    \/ DisplayRank(a.Status) < DisplayRank(b.Status)
    \/ DisplayRank(a.Status) = DisplayRank(b.Status) /\ a.Duration <= b.Duration

\* C11 as stated: after SortSessions every pair of the list, whatever the hosts,
\* is ordered by display priority and, at equal priority, by ascending duration.
C11_PriorityOrderAnyList ==
    call.fn = "SortSessions" =>
        \A i, j \in DOMAIN call.ret : i < j => InDisplayOrder(call.ret[i], call.ret[j])

\* C11 amended: after SortSessions every two sessions that are both local or
\* both remote are ordered by display priority and, at equal priority, by
\* ascending duration; a list whose sessions are all local (or all remote) is
\* ordered that way as a whole.
C11_PriorityOrderWithinGroup ==
    call.fn = "SortSessions" =>
        \A i, j \in DOMAIN call.ret :
            (i < j /\ (call.ret[i].Host = "") = (call.ret[j].Host = ""))
                => InDisplayOrder(call.ret[i], call.ret[j])

\* C11 witness: a list of three local sessions (Waiting, Running, Permission)
\* was sorted into a different order.
C11_Witness ==
    /\ call.fn = "SortSessions"
    /\ Len(call.arg) = 3
    /\ \A i \in DOMAIN call.arg : call.arg[i].Host = ""
    /\ call.arg[1].Status = Waiting /\ call.arg[2].Status = Running
    /\ call.arg[3].Status = Permission
    /\ call.ret[1].Status = Permission

\* C12: after SortSessions no remote session precedes a local one, and the
\* local sessions among themselves and the remote sessions among themselves
\* are in display order (priority, then ascending duration).
C12_LocalBeforeRemote ==
    call.fn = "SortSessions" =>
        LET ret == call.ret
            locals == SelectSeq(ret, LAMBDA s : s.Host = "")
            remotes == SelectSeq(ret, LAMBDA s : s.Host # "")
            Ordered(g) == \A i \in 1..(Len(g) - 1) : InDisplayOrder(g[i], g[i + 1])
        IN /\ ret = locals \o remotes
           /\ Ordered(locals)
           /\ Ordered(remotes)
           /\ Len(ret) = Len(call.arg)

\* C12 witness: a remote Permission session listed first was sorted behind a
\* local Waiting session.
C12_Witness ==
    /\ call.fn = "SortSessions"
    /\ Len(call.arg) >= 2
    /\ call.arg[1].Host # "" /\ call.arg[1].Status = Permission
    /\ call.arg[2].Host = "" /\ call.arg[2].Status = Waiting
    /\ call.ret[1].Host = "" /\ call.ret[Len(call.ret)].Host # ""

(***************************************************************************)
(* session.DetectStatus.                                                   *)
(*                                                                         *)
(* A captured screen is the sequence of its lines, top to bottom (the      *)
(* pieces strings.Split cuts at "\n"); the empty output is the screen      *)
(* without lines.  A line is the sequence of its tokens: a token is a      *)
(* word, a glyph, a fixed phrase or " " for leading or trailing white      *)
(* space; the tokens of a line are separated by single spaces.             *)
(***************************************************************************)
\* strings.TrimSpace
RECURSIVE TrimLeft(_)
TrimLeft(l) == IF l # <<>> /\ Head(l) = " " THEN TrimLeft(Tail(l)) ELSE l

RECURSIVE TrimRight(_)
TrimRight(l) ==
    IF l # <<>> /\ l[Len(l)] = " " THEN TrimRight(SubSeq(l, 1, Len(l) - 1)) ELSE l

TrimSpace(l) == TrimRight(TrimLeft(l))

\* strings.ToLower, token by token
LowerToken(t) ==
    CASE t = "Allow" -> "allow"
      [] t = "Deny" -> "deny"
      [] t = "Yes" -> "yes"
      [] t = "No" -> "no"
      [] t = "Esc to interrupt" -> "esc to interrupt"
      [] OTHER -> t

ToLower(l) == [i \in DOMAIN l |-> LowerToken(l[i])]

\* strings.Contains and strings.HasPrefix for a phrase (a sequence of tokens)
Contains(l, phrase) ==
    \E i \in 0..(Len(l) - Len(phrase)) : SubSeq(l, i + 1, i + Len(phrase)) = phrase

HasPrefix(l, phrase) ==
    Len(l) >= Len(phrase) /\ SubSeq(l, 1, Len(phrase)) = phrase

\* strings.TrimPrefix
TrimPrefix(l, phrase) ==
    IF HasPrefix(l, phrase) THEN SubSeq(l, Len(phrase) + 1, Len(l)) ELSE l

\* glyphs are written by name: U+276F prompt, U+2026 ellipsis, U+23FA action,
\* U+273B and U+2736 stars, U+254C dash, U+2500 x3 rule, U+256D, U+2570 and
\* U+2502 box, U+280B.. braille
BrailleGlyphs == {"braille-" \o d : d \in {"0", "1", "2", "3", "4", "5", "6", "7", "8", "9"}}

\* a variant that takes every animation glyph for activity
isRunningIndicatorByGlyph(trimmed) ==
    \E i \in DOMAIN trimmed : trimmed[i] \in BrailleGlyphs \cup {"<star>", "<star6>", "<ellipsis>"}

isRunningIndicator(trimmed) ==
    IF \E i \in DOMAIN trimmed : trimmed[i] \in BrailleGlyphs THEN TRUE
    ELSE IF ~Contains(trimmed, <<"<ellipsis>">>) THEN FALSE
    ELSE IF HasPrefix(trimmed, <<"<ellipsis>">>) THEN FALSE
    ELSE IF HasPrefix(trimmed, <<"<action>">>) THEN FALSE
    ELSE IF HasPrefix(trimmed, <<"<prompt>">>) \/ trimmed = <<">">> THEN FALSE
    ELSE IF Contains(trimmed, <<"<ellipsis>", "+">>) /\ Contains(trimmed, <<"lines">>) THEN FALSE
    ELSE IF trimmed = <<"Waiting", "<ellipsis>">> THEN FALSE
    ELSE TRUE

isDecorationLine(trimmed) ==
    LET lower == ToLower(trimmed)
    IN \/ \E t \in {"bypass permissions on", "shift+tab", "auto-accept",
                    "accept edits on", "plan mode on", "for shortcuts",
                    "esc to interrupt"} : Contains(lower, <<t>>)
       \/ \E g \in {"<rule>", "<dash>", "<box-top>", "<box-bottom>", "<box-side>"} : HasPrefix(trimmed, <<g>>)

\* a variant that asks for a tool approval prompt only
isPermissionLineToolOnly(line) ==
    LET lower == ToLower(line)
    IN Contains(lower, <<"allow", "once">>) \/ Contains(lower, <<"allow", "always">>)

isPermissionLine(line) ==
    LET lower == ToLower(line)
    IN IF Contains(lower, <<"allow">>) /\ Contains(lower, <<"deny">>) THEN TRUE
       ELSE IF Contains(lower, <<"yes", "/", "no">>) \/ Contains(lower, <<"yes/no">>) THEN TRUE
       ELSE IF Contains(lower, <<"allow", "once">>) \/ Contains(lower, <<"allow", "always">>)
       THEN TRUE
       ELSE FALSE

MenuNumbers == {"1.", "2.", "3.", "4.", "5.", "6.", "7.", "8.", "9."}

\* a variant that never sees a menu
isNumberedMenuItemNever(trimmed) == FALSE

\* "N. " and more: a token N. that another token follows
isNumberedMenuItem(trimmed) ==
    LET s == TrimSpace(TrimPrefix(trimmed, <<"<prompt>">>))
    IN Len(s) >= 2 /\ s[1] \in MenuNumbers

\* a variant that never finds the busy hint
hasBusyHintNever(trimmed) == FALSE

\* the busy hint in a decoration line (the text as it is, not lowered)
hasBusyHint(trimmed) == Contains(trimmed, <<"esc to interrupt">>)

\* the prompt test of detectStatus
isPromptLine(trimmed) ==
    trimmed = <<"<prompt>">> \/ trimmed = <<">">> \/ HasPrefix(trimmed, <<"<prompt>">>)

\* a variant that never finds the completion phrase
abovePromptWaiting(trimmed) == Waiting

\* the first content line above the prompt decides
abovePrompt(trimmed) ==
    IF Contains(trimmed, <<"TASK DONE!">>) THEN TaskDone ELSE Waiting

\* a variant that takes every screen without a signal for idle
afterScanWaiting(sawPrompt) == Waiting

\* the loop has ended without a return
afterScan(sawPrompt) == IF sawPrompt THEN Waiting ELSE Unknown

\* the loop of detectStatus from index i downwards (lines[i] is the i-th line
\* from the top)
RECURSIVE detectLoop(_, _, _, _, _)
detectLoop(lines, i, contentLines, sawNumberedMenu, sawPrompt) ==
    IF ~(i >= 1 /\ contentLines < contentWindow) THEN afterScan(sawPrompt)
    ELSE
      LET trimmed == TrimSpace(lines[i])
      IN IF trimmed = <<>>
         THEN detectLoop(lines, i - 1, contentLines, sawNumberedMenu, sawPrompt)
         ELSE IF isDecorationLine(trimmed)
         THEN IF hasBusyHint(trimmed) THEN Running
              ELSE IF sawNumberedMenu /\ HasPrefix(trimmed, <<"<dash>">>) THEN Confirm
              ELSE detectLoop(lines, i - 1, contentLines, sawNumberedMenu, sawPrompt)
         ELSE IF sawPrompt THEN abovePrompt(trimmed)
         ELSE IF isPermissionLine(trimmed) THEN Permission
         ELSE IF isNumberedMenuItem(trimmed)
         THEN detectLoop(lines, i - 1, contentLines + 1, TRUE, sawPrompt)
         ELSE IF isPromptLine(trimmed)
         THEN detectLoop(lines, i - 1, contentLines + 1, sawNumberedMenu, TRUE)
         ELSE IF isRunningIndicator(trimmed) THEN Running
         ELSE detectLoop(lines, i - 1, contentLines + 1, sawNumberedMenu, sawPrompt)

detectStatus(lines) == detectLoop(lines, Len(lines), 0, FALSE, FALSE)

DetectStatus(output) ==
    IF output = <<>> THEN Unknown ELSE detectStatus(output)

(***************************************************************************)
(* The screens DetectStatus is studied on: up to MaxLines lines of the     *)
(* kinds below, and the same with contentWindow - 1 or contentWindow plain *)
(* content lines put above or below the lowest line.                       *)
(***************************************************************************)
LineBlank == <<" ", " ">>
LineHint == <<" ", "?", "for shortcuts">>
LineBusy == <<" ", "bypass permissions on", "(shift+tab to cycle)", "esc to interrupt">>
LineDash == <<"<dash>", "<dash>">>
LinePerm == <<" ", "Allow", "Deny">>
LineMenu == <<" ", "<prompt>", "1.", "Yes,", "and", "bypass permissions">>
LinePrompt == <<"<prompt>", " ">>
LineSpinner == <<"<star>", "Thinking", "<ellipsis>">>
LineCompleted == <<"<star>", "Brewed for 39s">>
LineDone == <<"<action>", "TASK DONE!">>
LineText == <<"<action>", "Done.">>
LineBraille == <<"braille-2", "Working">>

\* lines with an ellipsis that are no sign of activity
LineTruncated == <<"<ellipsis>", "+", "30", "lines", "(ctrl+o to expand)">>
LineCollapsed == <<"Read", "<ellipsis>", "+", "4", "lines">>
LineAction == <<"<action>", "Reading", "<ellipsis>">>
LineTyped == <<"<prompt>", "fix", "the", "bug", "<ellipsis>">>
LineIdle == <<" ", "Waiting", "<ellipsis>">>

Lines == {LineBlank, LineHint, LineBusy, LineDash, LinePerm, LineMenu, LinePrompt,
          LineSpinner, LineCompleted, LineDone, LineText, LineBraille}

\* s with k plain content lines put in after its first at lines
Padded(s, at, k) ==
    SubSeq(s, 1, at) \o [i \in 1..k |-> LineText] \o SubSeq(s, at + 1, Len(s))

PadSizes == {0, contentWindow - 1, contentWindow}

Screens ==
    UNION {{Padded(s, at, k) : at \in {Len(s) - 1, Len(s)} \cap (0..Len(s)), k \in PadSizes} :
              s \in SeqsUpTo(Lines, MaxLines)}

InitClassify == InitLibrary(Screens)

CallDetectStatus ==
    /\ call.fn = ""
    /\ call' = [fn |-> "DetectStatus", arg |-> call.arg, ret |-> DetectStatus(call.arg)]
    /\ UNCHANGED loopVars

NextClassify == CallDetectStatus

SpecClassify == InitClassify /\ [][NextClassify]_vars

(***************************************************************************)
(* Claims about DetectStatus (SpecClassify), stated on the kinds of lines. *)
(***************************************************************************)
\* the lines that are neither blank nor decoration
ContentLines == {LinePerm, LineMenu, LinePrompt, LineSpinner, LineCompleted, LineDone,
                 LineText, LineBraille}

\* the content lines below line e of the screen
ContentBelow(screen, e) == {i \in DOMAIN screen : i > e /\ screen[i] \in ContentLines}

\* scanning bottom-up, line e is reached and no terminal signal was met below
\* it: fewer than contentWindow content lines lie below e, none of them a
\* permission line or a sign of activity, no content line lies above a prompt
\* line, no dashed rule lies above a menu item, no line has the busy hint
ScanReaches(screen, e) ==
    LET below == {i \in DOMAIN screen : i > e}
    IN /\ \A i \in below : screen[i] \notin {LineBusy, LinePerm, LineSpinner, LineBraille}
       /\ Cardinality(ContentBelow(screen, e)) < contentWindow
       /\ \A i \in below : screen[i] = LinePrompt => ContentBelow(screen, e) \subseteq i..Len(screen)
       /\ \A i \in below : screen[i] = LineDash => \A j \in below : j > i => screen[j] # LineMenu

\* C13 as stated: a screen with the busy hint in some line classifies as Running.
C13_BusyHintAnywhere ==
    call.fn = "DetectStatus" =>
        ((\E e \in DOMAIN call.arg : call.arg[e] = LineBusy) => call.ret = Running)

\* C13 amended: a screen classifies as Running when the bottom-up scan reaches a
\* line with the busy hint before any terminal signal, whatever stands above
\* that line.
C13_BusyHintReached ==
    call.fn = "DetectStatus" =>
        \A e \in DOMAIN call.arg :
            (call.arg[e] = LineBusy /\ ScanReaches(call.arg, e)) => call.ret = Running

\* C13 witness: the hint line stands between a permission line above it and a
\* prompt line below it, and the screen classified as Running.
C13_Witness ==
    /\ call.fn = "DetectStatus"
    /\ call.arg = <<LinePerm, LineBusy, LinePrompt>>
    /\ call.ret = Running

C15_PromptLowest ==
    call.fn = "DetectStatus" =>
        \A q \in DOMAIN call.arg :
            (/\ call.arg[q] = LinePrompt
             /\ ContentBelow(call.arg, q) = {}
             /\ \A i \in DOMAIN call.arg : call.arg[i] # LineBusy)
            => LET above == {i \in 1..(q - 1) : call.arg[i] \in ContentLines}
                   first == CHOOSE i \in above : \A j \in above : j <= i
               IN call.ret = IF above # {} /\ call.arg[first] = LineDone
                             THEN TaskDone ELSE Waiting

\* C15 witness: the completion phrase stands above the prompt with a dashed
\* rule between them, and the screen classified as TaskDone.
C15_Witness ==
    /\ call.fn = "DetectStatus"
    /\ call.arg = <<LineDone, LineDash, LinePrompt>>
    /\ call.ret = TaskDone

C17_RunningOnlyByActivity ==
    /\ call.fn = "DetectStatus" =>
          ((call.ret = Running /\ \A i \in DOMAIN call.arg : call.arg[i] # LineBusy)
              => \E i \in DOMAIN call.arg : call.arg[i] \in {LineSpinner, LineBraille})
    /\ \A l \in {LineCompleted, LineTruncated, LineCollapsed, LineAction, LineTyped,
                 LineIdle} : ~isRunningIndicator(TrimSpace(l))
    /\ \A l \in {LineSpinner, LineBraille} : isRunningIndicator(TrimSpace(l))

\* C17 witness: a completed-animation line above the prompt classified as
\* Waiting.
C17_Witness ==
    /\ call.fn = "DetectStatus"
    /\ call.arg = <<LineCompleted, LinePrompt, LineHint>>
    /\ call.ret = Waiting

\* C18: every screen classifies as one of the six statuses; the empty output
\* and every screen in which no rule matches (blank lines, decoration without
\* the busy hint, plain content) classify as Unknown.
C18_Total ==
    call.fn = "DetectStatus" =>
        /\ call.ret \in {Unknown, Running, Waiting, Permission, Confirm, TaskDone}
        /\ call.arg = <<>> => call.ret = Unknown
        /\ (\A i \in DOMAIN call.arg :
               call.arg[i] \in {LineBlank, LineHint, LineDash, LineText, LineCompleted,
                                LineDone})
              => call.ret = Unknown

\* C18 witness: a screen of decoration and blank lines only classified as
\* Unknown.
C18_Witness ==
    /\ call.fn = "DetectStatus"
    /\ call.arg = <<LineDash, LineBlank, LineHint>>
    /\ call.ret = Unknown

(***************************************************************************)
(* session.FindSessionUUID.                                                *)
(*                                                                         *)
(* The argument holds the working directory, the transcript files of its   *)
(* project directory in the order os.ReadDir lists them, the session start *)
(* (0: the zero time), the snippets that occur in the captured pane text   *)
(* (none: the empty text) and the excluded identifiers.  A transcript file *)
(* is [uuid, modTime, started, firstMsg, snippets]: started is the time of *)
(* its first human turn (0: none), snippets its last three human turns.    *)
(* The result holds, besides the identifier and first message returned,    *)
(* the candidates kept and the files that were opened.                     *)
(***************************************************************************)
NoMatch(opened, cands) ==
    [uuid |-> "", firstMsg |-> "", opened |-> opened, candidates |-> cands]

\* a variant that skips no file
collectAny(entries, excludeUUIDs) == entries

\* the files of the directory that are not excluded
collectFiles(entries, excludeUUIDs) ==
    SelectSeq(entries, LAMBDA e : e.uuid \notin excludeUUIDs)

\* the orders sort.Slice can leave the set of files S in: newest first, files
\* of equal modification time in any order
RECURSIVE NewestFirst(_)
NewestFirst(S) ==
    IF S = {} THEN {<<>>}
    ELSE UNION {{<<f>> \o rest : rest \in NewestFirst(S \ {f})} :
                   f \in {g \in S : \A h \in S : g.modTime >= h.modTime}}

capCandidates(files) ==
    IF Len(files) > maxCandidates THEN SubSeq(files, 1, maxCandidates) ELSE files

\* strings.Contains(paneContent, s) for the snippets of a candidate
contentScore(c, paneContent) == Cardinality(c.snippets \cap paneContent)

\* the loop of strategy 1: the index of bestMatch (0: nil) and bestScore
RECURSIVE contentLoop(_, _, _, _, _)
contentLoop(cands, paneContent, i, bestMatch, bestScore) ==
    IF i > Len(cands) THEN [bestMatch |-> bestMatch, bestScore |-> bestScore]
    ELSE IF contentScore(cands[i], paneContent) > bestScore
         THEN contentLoop(cands, paneContent, i + 1, i, contentScore(cands[i], paneContent))
         ELSE contentLoop(cands, paneContent, i + 1, bestMatch, bestScore)

\* a variant that never matches by content
contentMatchNever(cands, paneContent) == 0

\* strategy 1: the index of the candidate chosen, 0 when none
contentMatch(cands, paneContent) ==
    IF paneContent # {} /\ Len(cands) > 1
    THEN LET r == contentLoop(cands, paneContent, 1, 0, 0)
         IN IF r.bestMatch # 0 /\ r.bestScore > 0 THEN r.bestMatch ELSE 0
    ELSE 0

\* the loop of strategy 2: bestDiff = -1 while bestMatch is nil
RECURSIVE startLoop(_, _, _, _, _)
startLoop(cands, sessionStart, i, bestMatch, bestDiff) ==
    IF i > Len(cands) THEN bestMatch
    ELSE IF cands[i].started = 0
         THEN startLoop(cands, sessionStart, i + 1, bestMatch, bestDiff)
         ELSE LET diff == cands[i].started - sessionStart
              IN IF diff >= 0 /\ (bestDiff < 0 \/ diff < bestDiff)
                 THEN startLoop(cands, sessionStart, i + 1, i, diff)
                 ELSE startLoop(cands, sessionStart, i + 1, bestMatch, bestDiff)

\* strategy 2
startMatch(cands, sessionStart) ==
    IF sessionStart # 0 THEN startLoop(cands, sessionStart, 1, 0, -1) ELSE 0

\* the loops of strategies 3 and 4: the newest among the candidates modified
\* at or after the time from
RECURSIVE modLoop(_, _, _, _)
modLoop(cands, from, i, bestMatch) ==
    IF i > Len(cands) THEN bestMatch
    ELSE IF cands[i].modTime < from THEN modLoop(cands, from, i + 1, bestMatch)
         ELSE IF bestMatch = 0 \/ cands[i].modTime > cands[bestMatch].modTime
              THEN modLoop(cands, from, i + 1, i)
              ELSE modLoop(cands, from, i + 1, bestMatch)

\* strategy 3
lifetimeMatch(cands, sessionStart) ==
    IF sessionStart # 0 THEN modLoop(cands, sessionStart, 1, 0) ELSE 0

\* a variant without the last resort
lastResortNone(cands) == 0

\* strategy 4
lastResort(cands) == modLoop(cands, 0, 1, 0)

\* the strategies in their order, on the candidates kept
chooseCandidate(cands, sessionStart, paneContent) ==
    IF contentMatch(cands, paneContent) # 0 THEN contentMatch(cands, paneContent)
    ELSE IF startMatch(cands, sessionStart) # 0 THEN startMatch(cands, sessionStart)
    ELSE IF lifetimeMatch(cands, sessionStart) # 0 THEN lifetimeMatch(cands, sessionStart)
    ELSE lastResort(cands)

\* FindSessionUUID after sort.Slice has left the files in the order sorted
FindSessionUUID(a, sorted) ==
    IF a.workDir = "" THEN NoMatch({}, <<>>)
    ELSE LET cands == capCandidates(sorted)
             opened == {cands[i].uuid : i \in DOMAIN cands}
             best == chooseCandidate(cands, a.sessionStart, a.paneContent)
         IN IF Len(cands) = 0 \/ best = 0 THEN NoMatch(opened, cands)
            ELSE [uuid |-> cands[best].uuid, firstMsg |-> cands[best].firstMsg,
                  opened |-> opened, candidates |-> cands]

(***************************************************************************)
(* The directories FindSessionUUID is studied on: the transcripts u1 and   *)
(* u2, each old or recent, begun before or after the session start or      *)
(* without a timed turn, with none, one or two of the snippets a and b,    *)
(* and none, maxCandidates - 1 or maxCandidates newer transcripts without  *)
(* content.                                                                *)
(***************************************************************************)
Transcript(u, m, st, sn) ==
    [uuid |-> u, modTime |-> m, started |-> st, firstMsg |-> "first of " \o u,
     snippets |-> sn]

Transcripts(u) ==
    {Transcript(u, m, st, sn) :
        m \in {1, 4}, st \in {0, 2, 4, 5}, sn \in {{}, {"a"}, {"a", "b"}}}

NewerIds == <<"n01", "n02", "n03", "n04", "n05", "n06", "n07", "n08", "n09", "n10">>

NewerTranscripts(k) == [i \in 1..k |-> Transcript(NewerIds[i], 10 + i, 0, {})]

Listings ==
    {<<>>} \cup {<<f>> : f \in Transcripts("u1")}
           \cup {<<f, g>> : f \in Transcripts("u1"), g \in Transcripts("u2")}

FindArg(w, l, t, pc, x) ==
    [workDir |-> w, entries |-> l, sessionStart |-> t, paneContent |-> pc,
     excludeUUIDs |-> x]

FindInputs ==
    {FindArg("/w", l \o NewerTranscripts(k), t, pc, x) :
        l \in Listings, k \in {0, maxCandidates - 1, maxCandidates}, t \in {0, 3},
        pc \in {{}, {"a"}, {"a", "b"}}, x \in SUBSET {"u1", "u2"}}
    \cup {FindArg("", l, 3, {"a"}, {}) : l \in Listings}

InitFind == InitLibrary(FindInputs)

CallFindSessionUUID ==
    /\ call.fn = ""
    /\ LET files == collectFiles(call.arg.entries, call.arg.excludeUUIDs)
       IN \E sorted \in NewestFirst({files[i] : i \in DOMAIN files}) :
             call' = [fn |-> "FindSessionUUID", arg |-> call.arg,
                      ret |-> FindSessionUUID(call.arg, sorted)]
    /\ UNCHANGED loopVars

NextFind == CallFindSessionUUID

SpecFind == InitFind /\ [][NextFind]_vars

(***************************************************************************)
(* Claims about FindSessionUUID (SpecFind).                                *)
(***************************************************************************)
\* the candidates (indices of cands) the ordered strategies of the
\* specification choose among: the first strategy that finds a match decides;
\* timed tells whether strategies 2 and 3 apply
StrategyChoice(cands, sessionStart, paneContent, timed) ==
    LET I == DOMAIN cands
        score(i) == Cardinality(cands[i].snippets \cap paneContent)
        after == {i \in I : cands[i].started # 0 /\ cands[i].started >= sessionStart}
        during == {i \in I : cands[i].modTime >= sessionStart}
        s1 == IF Len(cands) >= 2
              THEN {i \in I : score(i) > 0 /\ \A j \in I : score(j) <= score(i)}
              ELSE {}
        s2 == IF timed
              THEN {i \in after : \A j \in after : cands[i].started <= cands[j].started}
              ELSE {}
        s3 == IF timed
              THEN {i \in during : \A j \in during : cands[i].modTime >= cands[j].modTime}
              ELSE {}
        s4 == {i \in I : \A j \in I : cands[i].modTime >= cands[j].modTime}
    IN IF s1 # {} THEN s1 ELSE IF s2 # {} THEN s2 ELSE IF s3 # {} THEN s3 ELSE s4

\* FindSessionUUID returned a candidate of the set chosen, nothing if none
ReturnsOneOf(chosen) ==
    IF chosen = {} THEN call.ret.uuid = ""
    ELSE \E i \in chosen : /\ call.ret.uuid = call.ret.candidates[i].uuid
                           /\ call.ret.firstMsg = call.ret.candidates[i].firstMsg

\* C19 as stated: FindSessionUUID returns the choice of the first of the four
\* strategies that finds a match among the candidates, whatever the session
\* start.
C19_FirstStrategyWins ==
    (call.fn = "FindSessionUUID" /\ call.arg.workDir # "") =>
        ReturnsOneOf(StrategyChoice(call.ret.candidates, call.arg.sessionStart,
                                    call.arg.paneContent, TRUE))

\* C19 amended: FindSessionUUID returns the choice of the first strategy that
\* finds a match, where strategies 2 and 3 are tried only when the session
\* start is known (not the zero time); with an unknown start strategy 1 is
\* followed by strategy 4.
C19_FirstStrategyWinsKnownStart ==
    (call.fn = "FindSessionUUID" /\ call.arg.workDir # "") =>
        ReturnsOneOf(StrategyChoice(call.ret.candidates, call.arg.sessionStart,
                                    call.arg.paneContent, call.arg.sessionStart # 0))

\* C19 witness: u2 was returned for its two snippets on the screen although u1
\* began right after the session start and is the newer file.
C19_Witness ==
    /\ call.fn = "FindSessionUUID"
    /\ call.arg.sessionStart = 3
    /\ call.arg.paneContent = {"a", "b"}
    /\ call.arg.entries = <<Transcript("u1", 4, 4, {"a"}), Transcript("u2", 1, 2, {"a", "b"})>>
    /\ call.ret.uuid = "u2"

\* the files of the directory that are not excluded and have fewer than
\* maxCandidates not excluded files newer than themselves
AmongNewest(a) ==
    LET kept == {a.entries[i] : i \in DOMAIN a.entries} \ 
                   {f \in {a.entries[i] : i \in DOMAIN a.entries} : f.uuid \in a.excludeUUIDs}
    IN {f.uuid : f \in {g \in kept :
                          Cardinality({h \in kept : h.modTime > g.modTime}) < maxCandidates}}

\* C20: the identifier FindSessionUUID returns is not excluded and is one of
\* the maxCandidates newest not excluded files; no excluded file and no file
\* beyond that cap is opened.
C20_NeverExcludedNorBeyondCap ==
    call.fn = "FindSessionUUID" =>
        /\ call.ret.uuid # "" => call.ret.uuid \in AmongNewest(call.arg)
        /\ call.ret.uuid \notin call.arg.excludeUUIDs
        /\ call.ret.opened \subseteq AmongNewest(call.arg)
        /\ call.ret.opened \cap call.arg.excludeUUIDs = {}
        /\ Cardinality(call.ret.opened) <= maxCandidates

\* C20 witness: with u1 excluded and maxCandidates newer files, u2 (whose
\* snippets are on the screen) was not opened and a newer file was returned.
C20_Witness ==
    /\ call.fn = "FindSessionUUID"
    /\ Len(call.arg.entries) = maxCandidates + 2
    /\ call.arg.excludeUUIDs = {"u1"}
    /\ call.arg.paneContent = {"a", "b"}
    /\ call.arg.entries[2].snippets = {"a", "b"}
    /\ "u2" \notin call.ret.opened
    /\ Cardinality(call.ret.opened) = maxCandidates
    /\ call.ret.uuid = "n10"

(***************************************************************************)
(* FindSessionUUID run twice on the same directory (SpecFindTwice).        *)
(*                                                                         *)
(* os.ReadDir lists the directory by file name and sort.Slice (pattern-    *)
(* defeating quicksort, no random source) is a function of the slice it is *)
(* given: a second run on the same files leaves them in the order of the   *)
(* first.                                                                  *)
(***************************************************************************)
\* a variant whose order among files of equal modification time changes from
\* run to run
sortSliceAnew(S, before) == NewestFirst(S)

\* the orders sort.Slice leaves the files S in, given the candidates the run
\* before kept of the same files
sortSlice(S, before) == {s \in NewestFirst(S) : capCandidates(s) = before}

CallFindSessionUUIDAgain ==
    /\ call.fn = "FindSessionUUID"
    /\ LET files == collectFiles(call.arg.entries, call.arg.excludeUUIDs)
       IN \E sorted \in sortSlice({files[i] : i \in DOMAIN files}, call.ret.candidates) :
             call' = [fn |-> "FindSessionUUID twice", arg |-> call.arg,
                      ret |-> <<call.ret, FindSessionUUID(call.arg, sorted)>>]
    /\ UNCHANGED loopVars

NextFindTwice ==
    \/ CallFindSessionUUID
    \/ CallFindSessionUUIDAgain

SpecFindTwice == InitFind /\ [][NextFindTwice]_vars

C22_EmptyIffNoCandidate ==
    call.fn = "FindSessionUUID" =>
        (call.ret.uuid = "" <=>
            \/ call.arg.workDir = ""
            \/ \A i \in DOMAIN call.arg.entries :
                  call.arg.entries[i].uuid \in call.arg.excludeUUIDs)

\* C22 witness: both transcripts of the directory were excluded and nothing
\* was returned, no file having been opened.
C22_Witness ==
    /\ call.fn = "FindSessionUUID"
    /\ call.arg.workDir # ""
    /\ Len(call.arg.entries) = 2
    /\ call.arg.excludeUUIDs = {"u1", "u2"}
    /\ call.ret.uuid = ""
    /\ call.ret.opened = {}

(***************************************************************************)
(* Killing from the list: the local executor and the remote host A, one    *)
(* session each; polls fill the registry (a local poll fails when the      *)
(* multiplexer binary is not found), keys select, confirm and cancel.      *)
(***************************************************************************)
KillCfg ==
    [executors |-> <<"", "A">>,
     names     |-> [h \in {"", "A"} |-> IF h = "" THEN <<"crab-l">> ELSE <<"crab-a">>],
     statuses  |-> [h \in {"", "A"} |-> {Running, Waiting}],
     durations |-> {1},
     step      |-> idleThreshold,
     horizon   |-> 0,
     inflight  |-> PollInflight]

InitKill == InitModel(KillCfg, {})

NextKill ==
    \/ \E i \in 1..PollInflight : \E msg \in ListExecutor("") : LocalSessionsMsg(i, msg)
    \/ \E h \in RemoteHosts, i \in 1..PollInflight, failed \in BOOLEAN :
          \E msg \in RemoteResult(h, failed) : RemoteSessionsMsg(h, i, failed, msg)
    \/ \E i \in 1..PollInflight : ErrorMsg(i)
    \/ \E k \in Keys, sel \in Selections : KeyMsg(k, sel)
    \/ \E i \in 1..MaxKills : SessionKilledMsg(i)

SpecKill == InitKill /\ [][NextKill]_vars

\* C23: no transcript lookup is given the working directory of a remote
\* session: the sessions a poll looked up the last activity of are local, and
\* the session a kill unit looked up the transcript of is local.
C23_CorrelationOnlyLocal ==
    /\ last.msg \in {"sessions", "remoteSessions"} =>
          \A s \in lastActiveLookups(last.host, last.list) : s.Host = ""
    /\ last.msg = "sessionKilled" => last.host = ""

(***************************************************************************)
(* session.encodeProjectDir (SpecEncode).  A path is a sequence of         *)
(* characters; the result of a first call is encoded again.                *)
(***************************************************************************)
\* a variant that drops the leading slash
encodeProjectDirRelative(dir) ==
    IF dir # <<>> /\ Head(dir) = "/" THEN Tail(dir) ELSE dir

\* strings.ReplaceAll(dir, "/", "-")
encodeProjectDir(dir) ==
    [i \in DOMAIN dir |-> IF dir[i] = "/" THEN "-" ELSE dir[i]]

CallEncodeProjectDir ==
    /\ call.fn = ""
    /\ call' = [fn |-> "encodeProjectDir", arg |-> call.arg,
                ret |-> encodeProjectDir(call.arg)]
    /\ UNCHANGED loopVars

CallEncodeProjectDirAgain ==
    /\ call.fn = "encodeProjectDir"
    /\ call' = [fn |-> "encodeProjectDir twice", arg |-> call.arg,
                ret |-> <<call.ret, encodeProjectDir(call.arg), encodeProjectDir(call.ret)>>]
    /\ UNCHANGED loopVars

NextEncode ==
    \/ CallEncodeProjectDir
    \/ CallEncodeProjectDirAgain

SpecEncode ==
    InitLibrary(SeqsUpTo({"/", "-", "U", "a"}, MaxPath)) /\ [][NextEncode]_vars

\* C24: encodeProjectDir is defined for every path; it turns every "/" into
\* "-", the leading one included, and leaves every other character alone (the
\* empty path stays empty); encoding the same path again gives the same
\* string, and encoding the encoded string leaves it unchanged.
C24_EncodeIdempotent ==
    /\ call.fn = "encodeProjectDir" =>
          /\ Len(call.ret) = Len(call.arg)
          /\ \A i \in DOMAIN call.arg :
                call.ret[i] = IF call.arg[i] = "/" THEN "-" ELSE call.arg[i]
          /\ call.arg = <<>> => call.ret = <<>>
          /\ call.arg = <<"/", "U", "/", "a">> => call.ret = <<"-", "U", "-", "a">>
    /\ call.fn = "encodeProjectDir twice" =>
          /\ call.ret[2] = call.ret[1]
          /\ call.ret[3] = call.ret[1]

\* C24 witness: "/U/a" was encoded as "-U-a", and the encoded string again.
C24_Witness ==
    /\ call.fn = "encodeProjectDir twice"
    /\ call.arg = <<"/", "U", "/", "a">>
    /\ call.ret[1] = <<"-", "U", "-", "a">>
    /\ call.ret[3] = <<"-", "U", "-", "a">>

\* C28: a poll whose listing found no multiplexer binary or no server yields
\* no session of its host and records no error in the Model.
C28_AbsentTransportIsEmpty ==
    [][(\/ last'.msg = "error"
        \/ last'.msg = "sessions" /\ last'.list = <<>>
        \/ last'.msg = "remoteSessions" /\ last'.name = "failed") =>
           /\ HostEntries(sessions', last'.host) = <<>>
           /\ err' = err]_vars

(***************************************************************************)
(* The commands send, kill and set (SpecCli).                              *)
(*                                                                         *)
(* A target is a sequence of tokens, ":" being the colon; a host nickname  *)
(* and a session name are sequences of tokens too (<<>>: the empty string, *)
(* the local executor's HostName).  The argument of a command holds, with  *)
(* its target and flags, what the command meets: config (whether           *)
(* config.Load succeeds, and the nicknames it holds), exists (the sessions *)
(* <<host, full name>> the multiplexers hold), transport (the tmux binary  *)
(* is found, ssh connects), and the outcome of each multiplexer command.   *)
(* The result holds the error returned, the key-sending operations in      *)
(* their order, the sessions killed, the transcript lookups and the store  *)
(* writes, each with the executor (its HostName) that made it.             *)
(***************************************************************************)
SessionPrefix == "crab-"

RECURSIVE IndexByte(_, _, _)
IndexByte(s, c, i) ==
    IF i > Len(s) THEN 0 ELSE IF s[i] = c THEN i ELSE IndexByte(s, c, i + 1)

parseHostName(s) ==
    LET idx == IndexByte(s, ":", 1)
    IN IF idx > 0
       THEN [host |-> SubSeq(s, 1, idx - 1), name |-> SubSeq(s, idx + 1, Len(s))]
       ELSE [host |-> <<>>, name |-> s]

\* a variant that knows no local fallback: the executor of the host named
resolveExecutorNamed(host, config) == host

\* the HostName of the executor resolveExecutor returns
resolveExecutor(host, config) ==
    IF host = <<>> THEN <<>>
    ELSE IF ~config.ok THEN <<>>
    ELSE IF host \notin config.hosts THEN <<>>
    ELSE host

\* HasSession of LocalExecutor and SSHExecutor: false also when the binary is
\* not found or ssh fails
HasSession(ex, fullName, a) == a.transport /\ <<ex, fullName>> \in a.exists

KeyOp(ex, fullName, literal, keys) ==
    [ex |-> ex, target |-> fullName, literal |-> literal, keys |-> keys]

\* a variant that sends the text and the submit key in one operation
SendKeysAtOnce(ex, fullName, text, a) ==
    IF ~a.transport THEN [ops |-> <<>>, err |-> TRUE]
    ELSE [ops |-> <<KeyOp(ex, fullName, FALSE, <<text, "Enter">>)>>,
          err |-> ~(a.literal /\ a.enter)]

\* SendKeys of LocalExecutor (two tmux commands) and of SSHExecutor (one
\* remote shell line: send-keys -l ... && send-keys ... Enter): the
\* operations run and the error returned
SendKeys(ex, fullName, text, a) ==
    IF ~a.transport THEN [ops |-> <<>>, err |-> TRUE]
    ELSE IF ~a.literal
         THEN [ops |-> <<KeyOp(ex, fullName, TRUE, <<text>>)>>, err |-> TRUE]
         ELSE [ops |-> <<KeyOp(ex, fullName, TRUE, <<text>>),
                         KeyOp(ex, fullName, FALSE, <<"Enter">>)>>,
               err |-> ~a.enter]

NoEffect(e) ==
    [err |-> e, ex |-> <<>>, sends |-> <<>>, kills |-> {}, lookups |-> {}, writes |-> <<>>]

\* sendCmd.RunE
sendCmd(a) ==
    LET p == parseHostName(a.target)
        ex == resolveExecutor(p.host, a.config)
        fullName == <<SessionPrefix>> \o p.name
        sent == SendKeys(ex, fullName, a.text, a)
    IN IF ~HasSession(ex, fullName, a) THEN NoEffect("not found")
       ELSE [NoEffect(IF sent.err THEN "failed to send" ELSE "") EXCEPT
                !.ex = ex, !.sends = sent.ops]

\* killCmd.RunE
killCmd(a) ==
    LET p == parseHostName(a.target)
        ex == resolveExecutor(p.host, a.config)
        fullName == <<SessionPrefix>> \o p.name
    IN IF ~HasSession(ex, fullName, a) THEN NoEffect("not found")
       ELSE IF ~a.force /\ ~a.answerYes THEN NoEffect("")
       ELSE [NoEffect(IF a.killed THEN "" ELSE "failed to kill session") EXCEPT
                !.ex = ex,
                !.lookups = {<<ex, fullName>>},
                !.kills = {<<ex, fullName>>},
                !.writes = IF a.killed /\ a.uuid # "" /\ a.store
                           THEN <<[op |-> "MarkKilled", name |-> fullName, value |-> a.uuid]>>
                           ELSE <<>>]

\* setCmd.RunE
setCmd(a) ==
    LET p == parseHostName(a.target)
        ex == resolveExecutor(p.host, a.config)
        fullName == <<SessionPrefix>> \o p.name
        write(v) == [op |-> "SetAutoForward", name |-> fullName, value |-> v]
    IN IF ~HasSession(ex, fullName, a) THEN NoEffect("not found")
       ELSE IF ~a.af /\ ~a.stopAf THEN NoEffect("usage")
       ELSE IF ~a.store THEN NoEffect("failed to open state db")
       ELSE [NoEffect("") EXCEPT
                !.ex = ex,
                !.writes = (IF a.af THEN <<write(TRUE)>> ELSE <<>>)
                           \o (IF a.stopAf THEN <<write(FALSE)>> ELSE <<>>)]

\* what a command is run with: config.Load fails or knows the host A; the
\* session w exists locally, on A, on both or nowhere; the target names w or
\* x, bare or on A, on the unknown host Z or after an empty host name
CliArg(cmd, target, ok, exists, transport, rest) ==
    [cmd |-> cmd, target |-> target, config |-> [ok |-> ok, hosts |-> {<<"A">>}],
     exists |-> exists, transport |-> transport,
     text |-> IF rest[1] THEN "Enter" ELSE "hi", literal |-> rest[2], enter |-> rest[3],
     force |-> rest[2], answerYes |-> rest[3], killed |-> rest[4],
     uuid |-> IF rest[1] THEN "u1" ELSE "", store |-> rest[4], af |-> rest[2], stopAf |-> rest[3]]

CliInputs ==
    {CliArg(cmd, target, ok, exists, transport, <<r1, r2, r3, r4>>) :
        cmd \in {"send", "kill", "set"},
        target \in {<<"w">>, <<"x">>, <<"A", ":", "w">>, <<"A", ":", "x">>,
                    <<"Z", ":", "w">>, <<":", "w">>},
        ok \in BOOLEAN,
        exists \in SUBSET {<<<<>>, <<SessionPrefix, "w">>>>, <<<<"A">>, <<SessionPrefix, "w">>>>},
        transport \in BOOLEAN,
        r1 \in BOOLEAN, r2 \in BOOLEAN, r3 \in BOOLEAN, r4 \in BOOLEAN}

CallSend ==
    /\ call.fn = "" /\ call.arg.cmd = "send"
    /\ call' = [fn |-> "send", arg |-> call.arg, ret |-> sendCmd(call.arg)]
    /\ UNCHANGED loopVars

CallKill ==
    /\ call.fn = "" /\ call.arg.cmd = "kill"
    /\ call' = [fn |-> "kill", arg |-> call.arg, ret |-> killCmd(call.arg)]
    /\ UNCHANGED loopVars

CallSet ==
    /\ call.fn = "" /\ call.arg.cmd = "set"
    /\ call' = [fn |-> "set", arg |-> call.arg, ret |-> setCmd(call.arg)]
    /\ UNCHANGED loopVars

NextCli ==
    \/ CallSend
    \/ CallKill
    \/ CallSet

SpecCli == InitLibrary(CliInputs) /\ [][NextCli]_vars

\* C26: a send runs at most two key-sending operations, in this order: the
\* text as literal input, then the submit key alone and not as literal input;
\* the submit key is sent only when the literal delivery succeeded, no
\* operation carries both, and a send that returns no error ran both.
C26_LiteralThenSubmit ==
    call.fn = "send" =>
        LET ops == call.ret.sends
        IN /\ Len(ops) <= 2
           /\ \A i \in DOMAIN ops :
                 /\ Len(ops[i].keys) = 1
                 /\ ops[i].literal <=> i = 1
                 /\ ops[i].keys = IF i = 1 THEN <<call.arg.text>> ELSE <<"Enter">>
           /\ Len(ops) = 2 => call.arg.literal
           /\ call.ret.err = "" => Len(ops) = 2

\* C26 witness: the text "Enter" was delivered to crab-w of host A as literal
\* input and then submitted by a separate Enter key.
C26_Witness ==
    /\ call.fn = "send"
    /\ call.arg.text = "Enter"
    /\ call.ret.err = ""
    /\ call.ret.sends = <<KeyOp(<<"A">>, <<SessionPrefix, "w">>, TRUE, <<"Enter">>),
                          KeyOp(<<"A">>, <<SessionPrefix, "w">>, FALSE, <<"Enter">>)>>

\* C27: a send, kill or set whose session does not exist on the host its
\* target names returns the "not found" error and sends nothing, kills
\* nothing and writes nothing to the store.
C27_NotFoundNoEffect ==
    LET p == parseHostName(call.arg.target)
    IN (/\ call.fn \in {"send", "kill", "set"}
        /\ <<p.host, <<SessionPrefix>> \o p.name>> \notin call.arg.exists) =>
           /\ call.ret.err = "not found"
           /\ call.ret.sends = <<>>
           /\ call.ret.kills = {}
           /\ call.ret.writes = <<>>

\* C29: the operations of a command whose target is "host:name" run on the
\* executor of that host, those of a bare "name" on the local executor.
C29_TargetHostDecidesExecutor ==
    LET p == parseHostName(call.arg.target)
    IN call.fn \in {"send", "kill", "set"} =>
          /\ \A i \in DOMAIN call.ret.sends : call.ret.sends[i].ex = p.host
          /\ \A k \in call.ret.kills \cup call.ret.lookups : k[1] = p.host

(***************************************************************************)
(* The command new (SpecNew).  The argument is as for the other commands,  *)
(* with the message ("": none), the attach flag and whether NewSession     *)
(* succeeds.  The result is the state of the run: where it stands (pc),    *)
(* the milliseconds since waitForPrompt began, the time of the capture     *)
(* that classified as Waiting (-1: none), what was reported, sent and      *)
(* killed, the rounds sendMessage made (tries) and what the last of them   *)
(* saw ("err": the capture failed), and the error returned.  A capture     *)
(* takes no time or as long as a poll interval.                            *)
(***************************************************************************)
\* validName.MatchString(name)
validName(name) ==
    name # <<>> /\ \A i \in DOMAIN name : name[i] \notin {":", "!", " "}

NewRun(pc, e) ==
    [pc |-> pc, err |-> e, ex |-> <<>>, created |-> FALSE, elapsed |-> 0,
     waitingAt |-> -1, warned |-> FALSE, sends |-> <<>>, kills |-> {}, tries |-> 0,
     seen |-> "", attached |-> FALSE]

\* the end of RunE after the message was dealt with: attach if asked
newFinish(r, a) ==
    [r EXCEPT !.pc = "done", !.attached = a.attach]

\* a variant that sends the message after the wait timed out
afterTimeoutSend(r, a) ==
    [r EXCEPT !.pc = "verify", !.warned = TRUE,
              !.sends = SendKeys(r.ex, <<SessionPrefix>> \o parseHostName(a.target).name,
                                 a.message, a).ops]

\* waitForPrompt returned its error: the warning, and RunE returns nil
afterTimeout(r, a) == [r EXCEPT !.pc = "done", !.warned = TRUE, !.err = ""]

\* RunE up to the wait: the session is created
NewRunE ==
    /\ call.fn = "" /\ call.arg.cmd = "new"
    /\ LET a == call.arg
           p == parseHostName(a.target)
           ex == resolveExecutor(p.host, a.config)
           fullName == <<SessionPrefix>> \o p.name
           r == [NewRun("wait", "") EXCEPT !.ex = ex, !.created = TRUE]
       IN call' = [fn |-> "new", arg |-> a,
                   ret |-> IF ~validName(p.name) THEN NewRun("done", "invalid name")
                           ELSE IF HasSession(ex, fullName, a)
                                THEN NewRun("done", "already exists")
                           ELSE IF ~a.newSession
                                THEN NewRun("done", "failed to create session")
                           ELSE IF a.message # "" THEN r
                           ELSE newFinish(r, a)]
    /\ UNCHANGED loopVars

\* one round of waitForPrompt's loop and, when the loop ends, what RunE does
\* next: the warning, or sendMessage up to its first sleep
NewWaitPoll(d, captured, screen) ==
    /\ call.fn = "new" /\ call.ret.pc = "wait"
    /\ call.ret.elapsed < promptTimeout
    /\ LET a == call.arg
           r == [call.ret EXCEPT !.elapsed = @ + promptPoll + d]
           fullName == <<SessionPrefix>> \o parseHostName(a.target).name
           sent == SendKeys(r.ex, fullName, a.message, a)
       IN call' = [call EXCEPT !.ret =
                     IF captured /\ DetectStatus(screen) = Waiting
                     THEN IF sent.err
                          THEN [r EXCEPT !.pc = "done", !.waitingAt = r.elapsed,
                                         !.sends = sent.ops,
                                         !.err = "failed to send message"]
                          ELSE [r EXCEPT !.pc = "verify", !.waitingAt = r.elapsed,
                                         !.sends = sent.ops]
                     ELSE IF r.elapsed < promptTimeout THEN r
                     ELSE afterTimeout(r, a)]
    /\ UNCHANGED loopVars

\* a variant that types the message again before the submit key
resendAll(r, fullName, text) ==
    [r EXCEPT !.sends = @ \o <<KeyOp(<<>>, fullName, TRUE, <<text>>),
                               KeyOp(<<>>, fullName, FALSE, <<"Enter">>)>>]

\* tmux.SendEnter(fullName): the submit key alone, by the package's function
\* of the local multiplexer
resendSubmit(r, fullName, text) ==
    [r EXCEPT !.sends = @ \o <<KeyOp(<<>>, fullName, FALSE, <<"Enter">>)>>]

\* one round of sendMessage's loop and, when the loop ends, the rest of RunE
NewVerify(captured, screen) ==
    /\ call.fn = "new" /\ call.ret.pc = "verify"
    /\ LET a == call.arg
           r == [call.ret EXCEPT !.tries = @ + 1,
                                 !.seen = IF captured THEN DetectStatus(screen) ELSE "err"]
           fullName == <<SessionPrefix>> \o parseHostName(a.target).name
           again == resendSubmit(r, fullName, a.message)
       IN call' = [call EXCEPT !.ret =
                     IF captured /\ DetectStatus(screen) # Waiting THEN newFinish(r, a)
                     ELSE IF captured
                          THEN IF again.tries < verifyTries THEN again
                               ELSE newFinish(again, a)
                     ELSE IF r.tries < verifyTries THEN r ELSE newFinish(r, a)]
    /\ UNCHANGED loopVars

NewInputs ==
    {[cmd |-> "new", target |-> t, config |-> [ok |-> TRUE, hosts |-> {<<"A">>}],
      exists |-> x, transport |-> TRUE, newSession |-> n, message |-> m,
      attach |-> at, literal |-> l, enter |-> TRUE] :
        t \in {<<"n">>, <<"A", ":", "n">>, <<"n", "!">>},
        x \in SUBSET {<<<<>>, <<SessionPrefix, "n">>>>},
        n \in BOOLEAN, m \in {"", "hi"}, at \in BOOLEAN, l \in BOOLEAN}

NewScreens == {<<>>, <<LineSpinner>>, <<LineText, LinePrompt, LineHint>>}

NextNew ==
    \/ NewRunE
    \/ \E d \in {0, promptPoll}, captured \in BOOLEAN, screen \in NewScreens :
          NewWaitPoll(d, captured, screen)
    \/ \E captured \in BOOLEAN, screen \in NewScreens : NewVerify(captured, screen)

SpecNew == InitLibrary(NewInputs) /\ [][NextNew]_vars

\* what C25 promises of a run: the warning was reported, the message was not
\* sent, the session was not killed and no error was returned
WarnedOnly(r) ==
    /\ r.warned
    /\ r.sends = <<>>
    /\ r.kills = {}
    /\ r.err = ""

\* C25 as stated: when new has created a session to send a message to, and
\* no capture classified it as Waiting within promptTimeout of the wait's
\* beginning, the run ends with the warning only.
C25_NotWaitingInTimeWarns ==
    (/\ call.fn = "new" /\ call.ret.pc \in {"verify", "done"}
     /\ call.ret.created /\ call.arg.message # ""
     /\ (call.ret.waitingAt = -1 \/ call.ret.waitingAt > promptTimeout)) =>
        WarnedOnly(call.ret)

\* C25 amended: when no capture of the wait classified the session as
\* Waiting, the run ends with the warning only, promptTimeout or more after
\* the wait began; a capture that classifies as Waiting is acted on also when
\* it ends after promptTimeout (by less than a poll interval and the time the
\* capture took).
C25_NoWaitingCaptureWarns ==
    (/\ call.fn = "new" /\ call.ret.pc \in {"verify", "done"}
     /\ call.ret.created /\ call.arg.message # "") =>
        /\ call.ret.waitingAt = -1 =>
              WarnedOnly(call.ret) /\ call.ret.pc = "done"
                 /\ call.ret.elapsed >= promptTimeout
        /\ call.ret.waitingAt # -1 =>
              /\ ~call.ret.warned
              /\ call.ret.waitingAt < promptTimeout + 2 * promptPoll

\* C25 witness: the wait ended promptTimeout after it began without a Waiting
\* capture; the warning was reported, nothing sent, nothing killed, no error.
C25_Witness ==
    /\ call.fn = "new" /\ call.ret.pc = "done"
    /\ call.ret.created /\ call.arg.message = "hi"
    /\ call.ret.waitingAt = -1
    /\ call.ret.elapsed = promptTimeout
    /\ WarnedOnly(call.ret)

(***************************************************************************)
(* The pace of nudges: the watchdog's session with ticks closer together   *)
(* than autoForwardDelay, and Ctrl+A to disable and enable it again.       *)
(***************************************************************************)
PaceCfg == [WatchCfg EXCEPT !.step = PaceStep, !.horizon = PaceHorizon,
                            !.statuses = [h \in {""} |-> {Running, Waiting}]]

NextPace ==
    \/ Advance
    \/ TickMsg
    \/ \E i \in 1..WatchInflight : \E msg \in ListExecutor("") : LocalSessionsMsg(i, msg)
    \/ \E sel \in Selections : KeyMsg("ctrl+a", sel)
    \/ \E key \in UnitKeys, typed \in BOOLEAN :
          \E capture \in Captures(key[2]), screen \in cfg.statuses[key[2]] :
             NudgeUnit(key, capture, screen, typed)
    \/ \E fullName \in AllNames : AutoForwardSentMsg(fullName)

SpecPace == InitModel(PaceCfg, {"crab-x"}) /\ [][NextPace]_vars

\* C30: a tick dispatches a nudge unit for a session only if none was
\* dispatched for it during the autoForwardDelay before; the dispatch sets
\* the session's waiting time to the time of the tick and leaves its counter
\* as it was.
C30_NudgesApart ==
    [][\A fn \in DOMAIN hist :
          (last'.msg = "tick" /\ nudgeUnits'[<<fn, "">>] > nudgeUnits[<<fn, "">>]) =>
             /\ hist[fn].at = -1
             /\ fn \in DOMAIN waitingSince' /\ waitingSince'[fn] = now
             /\ MapGet(autoForwardCount', fn, 0) = MapGet(autoForwardCount, fn, 0)]_vars

\* C30 witness: a nudge unit was dispatched for crab-x by the tick at 20 s,
\* the one before having been dispatched at 10 s and its message handled.
C30_Witness ==
    /\ last.msg = "tick" /\ last.info = "nudge"
    /\ now = 4 * PaceStep
    /\ hist["crab-x"].at = now
    /\ hist["crab-x"].sent = 1
    /\ MapGet(autoForwardCount, "crab-x", 0) = 1
    /\ waitingSince["crab-x"] = now

(***************************************************************************)
(* The command new with every enabled step eventually taken.               *)
(***************************************************************************)
SpecNewFair == SpecNew /\ WF_vars(NextNew)

\* the key-sending operations of a run that carry text as literal input
TextOps(r) == {i \in DOMAIN r.sends : r.sends[i].literal}

\* C31: sendMessage ends: a run that has delivered the message reaches the
\* end of the command.  The text is delivered once; at most verifyTries
\* rounds follow; each operation after the delivery is the submit key alone,
\* at most verifyTries of them; the rounds end before the last only when the
\* session was seen not to be Waiting; and no error is returned, also when
\* every round saw it Waiting.
C31_SendMessageTerminates ==
    /\ [](((call.fn = "new" /\ call.ret.pc = "verify") \/
           (call.fn = "new" /\ call.ret.pc = "done" /\ call.ret.tries > 0)) =>
             /\ TextOps(call.ret) = {1}
             /\ call.ret.sends[1].keys = <<call.arg.message>>
             /\ \A i \in 2..Len(call.ret.sends) : call.ret.sends[i].keys = <<"Enter">>
             /\ Len(call.ret.sends) <= 2 + verifyTries
             /\ call.ret.tries <= verifyTries
             /\ call.ret.pc = "verify" => call.ret.tries < verifyTries
             /\ (call.ret.pc = "done" /\ call.ret.tries < verifyTries) =>
                   call.ret.seen \notin {Waiting, "err"}
             /\ call.ret.pc = "done" => call.ret.err = "")
    /\ []((call.fn = "new" /\ call.ret.pc = "verify") =>
             <>(call.fn = "new" /\ call.ret.pc = "done"))

\* C31 witness: sendMessage ended after verifyTries rounds that all saw the
\* session Waiting: the text once, the submit key and verifyTries more
\* submit keys were sent, and no error returned.
C31_Witness ==
    /\ call.fn = "new" /\ call.ret.pc = "done"
    /\ call.ret.tries = verifyTries
    /\ call.ret.seen = Waiting
    /\ Len(call.ret.sends) = 2 + verifyTries
    /\ TextOps(call.ret) = {1}
    /\ call.ret.err = ""

(***************************************************************************)
(* Model.remoteInterval at two idle times, the second not before the       *)
(* first, in whole seconds up to MaxIdle.                                  *)
(***************************************************************************)
MaxIdle == 150

IdlePairs == {a \in [idle : 0..MaxIdle, later : 0..MaxIdle] : a.idle <= a.later}

CallRemoteInterval ==
    /\ call.fn = ""
    /\ call' = [fn |-> "remoteInterval", arg |-> call.arg,
                ret |-> [first |-> remoteInterval(call.arg.idle),
                         second |-> remoteInterval(call.arg.later)]]
    /\ UNCHANGED loopVars

NextInterval == CallRemoteInterval

SpecInterval == InitLibrary(IdlePairs) /\ [][NextInterval]_vars

\* C32: the remote poll interval is remotePollInterval below idleThreshold
\* of idle time, twice that from idleThreshold on, four times from twice
\* idleThreshold on, eight times from three times idleThreshold on and
\* maxRemotePollInterval from four times idleThreshold on; it always lies
\* between remotePollInterval and maxRemotePollInterval, and a later idle
\* time never has a shorter interval.
C32_IntervalSteps ==
    call.fn = "remoteInterval" =>
        LET idle == call.arg.idle
            r == call.ret
        IN /\ idle < idleThreshold => r.first = remotePollInterval
           /\ (idleThreshold <= idle /\ idle < 2 * idleThreshold)
                 => r.first = 2 * remotePollInterval
           /\ (2 * idleThreshold <= idle /\ idle < 3 * idleThreshold)
                 => r.first = 4 * remotePollInterval
           /\ (3 * idleThreshold <= idle /\ idle < 4 * idleThreshold)
                 => r.first = 8 * remotePollInterval
           /\ 4 * idleThreshold <= idle => r.first = maxRemotePollInterval
           /\ remotePollInterval <= r.first /\ r.first <= maxRemotePollInterval
           /\ r.first <= r.second

\* C32 witness: an idle time past four thresholds has the capped interval,
\* after a shorter idle time that had eight times the base interval.
C32_Witness ==
    /\ call.fn = "remoteInterval"
    /\ call.arg.idle >= 3 * idleThreshold /\ call.arg.idle < 4 * idleThreshold
    /\ call.arg.later >= 4 * idleThreshold
    /\ call.ret.first = 8 * remotePollInterval
    /\ call.ret.second = maxRemotePollInterval

(***************************************************************************)
(* The registry merges of Update on a registry and the results of two      *)
(* different hosts: one result applied once and twice, and the two         *)
(* results applied in either order.                                        *)
(***************************************************************************)
MergeNames == {"crab-1", "crab-2"}
MergeStatuses == {Running, Waiting}
MergeDurations == {1, 2}

\* what ListExecutor can return for host h: sessions of that host, no name twice
MergeResults(h) ==
    {l \in SeqsUpTo({Session(n, h, st, d) : n \in MergeNames, st \in MergeStatuses,
                                            d \in MergeDurations}, 2) :
        \A i, j \in DOMAIN l : l[i].FullName = l[j].FullName => i = j}

\* the merge Update applies to the result of host h
merge(ss, h, msg) == IF h = "" THEN mergeLocal(ss, msg) ELSE mergeRemote(ss, h, msg)

\* the registry before: empty as constructed, or after an earlier result
MergeRegistries(h) ==
    {<<>>} \cup {merge(<<>>, h, <<Session("crab-1", h, st, 1)>>) : st \in MergeStatuses}

MergeInputs ==
    {[reg |-> reg, hostA |-> hs[1], a |-> a, hostB |-> hs[2], b |-> b] :
        hs \in {<<"bay1", "bay2">>, <<"", "bay1">>},
        reg \in MergeRegistries("bay1") \cup MergeRegistries("bay2"),
        a \in MergeResults("bay1") \cup MergeResults(""),
        b \in MergeResults("bay2") \cup MergeResults("bay1")}

MergeArgs ==
    {x \in MergeInputs : /\ \A i \in DOMAIN x.a : x.a[i].Host = x.hostA
                         /\ \A i \in DOMAIN x.b : x.b[i].Host = x.hostB}

CallMerge ==
    /\ call.fn = ""
    /\ LET x == call.arg
           once == merge(x.reg, x.hostA, x.a)
       IN call' = [fn |-> "merge", arg |-> x,
                   ret |-> [once  |-> once,
                            twice |-> merge(once, x.hostA, x.a),
                            ab    |-> merge(once, x.hostB, x.b),
                            ba    |-> merge(merge(x.reg, x.hostB, x.b), x.hostA, x.a)]]
    /\ UNCHANGED loopVars

NextMerge == CallMerge

SpecMerge == InitLibrary(MergeArgs) /\ [][NextMerge]_vars

\* C33: a host's result applied twice gives the registry that applying it
\* once gives, and the results of two different hosts applied in either
\* order give the same registry.
C33_MergesIdempotentCommutative ==
    call.fn = "merge" =>
        /\ call.ret.twice = call.ret.once
        /\ call.ret.ab = call.ret.ba

\* the part that holds: the same result twice changes nothing
C33_MergeIdempotent ==
    call.fn = "merge" => call.ret.twice = call.ret.once

\* the part that holds: either order gives the same sessions, in an order
\* that differs only between sessions that tie under sessionLess
C33_SameSessionsEitherOrder ==
    call.fn = "merge" =>
        /\ {call.ret.ab[i] : i \in DOMAIN call.ret.ab} = {call.ret.ba[i] : i \in DOMAIN call.ret.ba}
        /\ Len(call.ret.ab) = Len(call.ret.ba)
        /\ \A i \in DOMAIN call.ret.ab :
              call.ret.ab[i] # call.ret.ba[i] =>
                 /\ ~sessionLess(call.ret.ab[i], call.ret.ba[i])
                 /\ ~sessionLess(call.ret.ba[i], call.ret.ab[i])
                 /\ "" \notin {call.arg.hostA, call.arg.hostB}

(***************************************************************************)
(* Where the persistent store is written.                                  *)
(***************************************************************************)
\* the messages Update handles in the event loop
HandledMsgs ==
    {"tick", "remoteTick", "key", "mouse", "sessions", "remoteSessions", "error",
     "sessionKilled", "autoForwardSent"}

\* C34: the handling of a message does no blocking operation itself: a step
\* that accesses the persistent store so that its contents change is never
\* the handling of a tick, key or other message, only a dispatched unit.
C34_HandlersNeverBlock ==
    [][store' # store => last'.msg \notin HandledMsgs]_vars

(***************************************************************************)
(* Result messages that arrive late.                                       *)
(***************************************************************************)
\* the registry holds a session of this full name
InRegistry(ss, fullName) == \E i \in DOMAIN ss : ss[i].FullName = fullName

\* C35: a result message that arrives for a session that has since been
\* removed from the registry is discarded: its handling changes neither
\* the registry nor the watchdog's waiting-since and counter entries.
C35_StaleResultDiscarded ==
    [][(last'.msg = "autoForwardSent" /\ ~InRegistry(sessions, last'.name))
          => /\ sessions' = sessions
             /\ waitingSince' = waitingSince
             /\ autoForwardCount' = autoForwardCount]_vars

(***************************************************************************)
(* The watchdog of a session that was disabled.                            *)
(***************************************************************************)
\* C36: while auto-forward is disabled for a session no nudge is typed into
\* it, also by a nudge unit dispatched while it was enabled, and the
\* session has no waiting-since entry and no counter entry.
C36_DisabledIsLeftAlone ==
    /\ [][last'.msg = "nudgeSent" => last'.name \in autoForward]_vars
    /\ [](\A fn \in AllNames :
             fn \notin autoForward =>
                fn \notin DOMAIN waitingSince /\ fn \notin DOMAIN autoForwardCount)

(***************************************************************************)
(* Two sessions of one full name: crab-x on the local host and crab-x on   *)
(* the remote host bay, auto-forward enabled for the name.                 *)
(***************************************************************************)
TwinCfg ==
    [WatchCfg EXCEPT !.executors = <<"", "bay">>,
                     !.names = [h \in {"", "bay"} |-> <<"crab-x">>],
                     !.statuses = [h \in {"", "bay"} |-> {Running, Waiting}],
                     !.horizon = PaceHorizon]

NextTwin ==
    \/ Advance
    \/ TickMsg
    \/ RemoteTickMsg
    \/ \E i \in 1..WatchInflight : \E msg \in ListExecutor("") : LocalSessionsMsg(i, msg)
    \/ \E h \in RemoteHosts, i \in 1..WatchInflight, failed \in BOOLEAN :
          \E msg \in RemoteResult(h, failed) : RemoteSessionsMsg(h, i, failed, msg)
    \/ \E key \in UnitKeys, typed \in BOOLEAN :
          \E capture \in Captures(key[2]), screen \in cfg.statuses[key[2]] :
             NudgeUnit(key, capture, screen, typed)
    \/ \E fullName \in AllNames : AutoForwardSentMsg(fullName)

SpecTwin == InitModel(TwinCfg, {"crab-x"}) /\ [][NextTwin]_vars

\* C37: the watchdog state of a session follows that session's own observed
\* status, not that of a session of the same full name on another host:
\* after a tick, every enabled session the registry shows Waiting has a
\* waiting-since entry, whatever a session of another host shows.
C37_OwnStatusOnly ==
    last.msg = "tick" =>
        \A i \in DOMAIN sessions :
           (sessions[i].FullName \in autoForward /\ sessions[i].Status = Waiting)
              => sessions[i].FullName \in DOMAIN waitingSince

(***************************************************************************)
(* Polling where every list unit of a remote host delivers its result.     *)
(***************************************************************************)
RemoteDelivery(h) ==
    \E i \in 1..PollInflight, failed \in BOOLEAN :
       \E msg \in RemoteResult(h, failed) : RemoteSessionsMsg(h, i, failed, msg)

SpecPollFair == SpecPoll /\ \A h \in {"A", "B"} : WF_vars(RemoteDelivery(h))

\* a list unit of a remote host is in flight
RemoteOutstanding == \E h \in RemoteHosts : inflight[h].pending > 0

\* C38: while the remote in-flight guard is set a remote fetch is
\* outstanding, and when every fetch delivers its result a set guard is
\* cleared again.
C38_GuardIsCleared ==
    /\ [](remoteFetching => RemoteOutstanding)
    /\ (remoteFetching ~> ~remoteFetching)

\* C38 witness: a remote tick has set the guard and dispatched a round, and
\* the fetch of every remote host is outstanding.
C38_Witness ==
    /\ last.msg = "remoteTick" /\ last.info = "round"
    /\ remoteFetching
    /\ \A h \in RemoteHosts : inflight[h].pending > 0

(***************************************************************************)
(* The poll timers: the list of the kill study with ticks, with and        *)
(* without a remote host configured.                                       *)
(***************************************************************************)
TimersCfg ==
    [KillCfg EXCEPT !.statuses = [h \in {"", "A"} |-> {Waiting}],
                    !.inflight = WatchInflight]

LocalOnlyCfg ==
    [TimersCfg EXCEPT !.executors = <<"">>,
                      !.names = [h \in {""} |-> <<"crab-l">>],
                      !.statuses = [h \in {""} |-> {Waiting}]]

InitTimers == \E c \in {TimersCfg, LocalOnlyCfg} : InitModel(c, {})

NextTimers ==
    \/ TickMsg
    \/ RemoteTickMsg
    \/ MouseMsg
    \/ NextKill

SpecTimers == InitTimers /\ [][NextTimers]_vars

\* C39: at all times one local poll timer is pending, and one remote poll
\* timer when a remote host is configured (none otherwise): a tick's
\* handling arms its own timer once again, and the handling of a poll
\* result, an error, a key, the mouse or a kill's result leaves the timers
\* as they are.
C39_OneTimerEach ==
    /\ timers.tick = 1
    /\ timers.remote = IF hasRemoteHosts THEN 1 ELSE 0

\* C39 witness: a remote host is configured, a failed local poll was
\* handled, and a tick has just been handled: one timer of each kind is
\* pending.
C39_Witness ==
    /\ last.msg = "tick"
    /\ err
    /\ hasRemoteHosts
    /\ timers = [tick |-> 1, remote |-> 1]

(***************************************************************************)
(* The store written by another process: the command set enables or        *)
(* disables auto-forward for one of two local sessions while the list      *)
(* runs.                                                                   *)
(***************************************************************************)
\* Store.SetAutoForward: the flag of the name after the upsert
SetAutoForward(db, name, enabled) ==
    IF enabled THEN db \cup {name} ELSE db \ {name}

\* setCmd run by another process with -a or -A for an existing session
SetByOtherProcess(fullName, enabled) ==
    /\ fullName \in AllNames
    /\ store' = SetAutoForward(store, fullName, enabled)
    /\ store' # store
    /\ last' = Event("set", "", fullName, IF enabled THEN "on" ELSE "off")
    /\ UNCHANGED <<call, cfg, now, sessions, remoteFetching, lastInteraction, autoForward,
                   autoForwardCount, waitingSince, confirmKill, err, timers,
                   inflight, nudgeUnits, sentMsgs, killUnits, hist>>

SyncHorizon == 10     \* the clock stops here when the store's sync is studied

SyncCfg ==
    [WatchCfg EXCEPT !.names = [h \in {""} |-> <<"crab-x", "crab-y">>],
                     !.statuses = [h \in {""} |-> {Running, Waiting}],
                     !.horizon = SyncHorizon]

NextSync ==
    \/ Advance
    \/ TickMsg
    \/ \E i \in 1..WatchInflight : \E msg \in ListExecutor("") : LocalSessionsMsg(i, msg)
    \/ \E fullName \in AllNames, enabled \in BOOLEAN : SetByOtherProcess(fullName, enabled)
    \/ \E key \in UnitKeys, typed \in BOOLEAN :
          \E capture \in Captures(key[2]), screen \in cfg.statuses[key[2]] :
             NudgeUnit(key, capture, screen, typed)
    \/ \E fullName \in AllNames : AutoForwardSentMsg(fullName)

SpecSync == InitModel(SyncCfg, {"crab-x"}) /\ [][NextSync]_vars

\* the entry of a map for a key: <<value>>, or <<>> when there is none
EntryOf(m, k) == IF k \in DOMAIN m THEN <<m[k]>> ELSE <<>>

\* C40: the handling of a local tick leaves exactly the sessions flagged in
\* the store enabled in memory; a session the sync removed has no
\* waiting-since and no counter entry afterwards; and for a session whose
\* flag did not change the tick leaves the entries a tick without any sync
\* would leave.
C40_TickFollowsStore ==
    [][last'.msg = "tick" =>
         LET unsynced == checkAutoForward(sessions, autoForward, autoForwardCount,
                                          waitingSince, now)
         IN /\ autoForward' = store
            /\ \A fn \in autoForward \ store :
                  fn \notin DOMAIN waitingSince' /\ fn \notin DOMAIN autoForwardCount'
            /\ \A fn \in AllNames :
                  ((fn \in autoForward) = (fn \in store)) =>
                     /\ EntryOf(waitingSince', fn) = EntryOf(unsynced.waitingSince, fn)
                     /\ EntryOf(autoForwardCount', fn) = EntryOf(unsynced.autoForwardCount, fn)]_vars

\* C40 witness: another process disabled crab-x and enabled crab-y; a tick
\* has been handled: crab-y alone is enabled in memory and has a
\* waiting-since entry, crab-x has no entry left.
C40_Witness ==
    /\ last.msg = "tick"
    /\ store = {"crab-y"}
    /\ autoForward = {"crab-y"}
    /\ "crab-y" \in DOMAIN waitingSince
    /\ "crab-x" \notin DOMAIN waitingSince
    /\ "crab-x" \notin DOMAIN autoForwardCount

====
